---- MODULE Spec2Model ----
(***************************************************************************)
(* One call of slate::internal::syr2k (src/internal/internal_syr2k.cc):    *)
(* the entry precondition check, the four target realizations (HostTask,   *)
(* HostNest, HostBatch, Devices), the units of work each one spawns, the   *)
(* tile acquisitions / kernel calls / life decrements each unit performs,  *)
(* the shared error indicator and the terminal join.                       *)
(*                                                                         *)
(* A unit of work is a straight-line program of statements (Prog); one     *)
(* action per kind of statement executes the statement at the unit's pc.   *)
(* The C tiles hold symbolic values: the sequence of update terms applied  *)
(* to them, each term normalised from the operators passed to the kernel   *)
(* to the logical operands it multiplies.                                  *)
(***************************************************************************)
EXTENDS Integers, Sequences, FiniteSets, TLC

\* ------------------------------------------------------------------ bounds
\* largest number of tile rows/columns of C (C is square: mt = nt)
MaxNt == 2
\* number of devices of C in the Devices realization
NumDevices == 1
\* nominal number of rows/columns of a tile of C (the last tile row/column
\* may be smaller) and number of columns of the tiles of A and B
TileNb == 2
TileKb == 3
\* the batch-assembly specification: tile rows/columns of C, devices
AsmMaxNt == 3
AsmDevices == 2
\* number of devices and largest tile grid of the calls of QueueSpec
QueueDevices == 2
QueueMaxNt == 2
\* largest tile size and batch of the calls of henorm
HnMaxN == 2
HnMaxBatch == 3
\* largest tile size and work-group size of the kernels of henorm
KnMaxN == 3
KnMaxDim == 2
KnBlocks == 2

\* ------------------------------------------------- program constants
\* values of __LINE__ stored in err by the catch handlers
Line_HostTask_diag == 90
Line_HostTask_off == 118
Line_HostNest_diag == 169
Line_HostNest_off == 203
Line_HostBatch_diag == 254
Line_Devices == 846

Targets == {"HostTask", "HostNest", "HostBatch", "Devices"}
Ops == {"NoTrans", "Trans", "ConjTrans"}
Uplos == {"Lower", "Upper"}
\* place of a tile that is not local to this process
Remote == -1
\* memory space of the host
Host == -1

VARIABLES
    cfg,      \* the arguments of the call and the distribution of C
    phase,    \* "entry", "running", "returned", "raised", "aborted"; "idle": no call
    rejected, \* the entry precondition check raised
    prog,     \* per unit: its statements (fixed by the arguments)
    pc,       \* per unit: 0 not spawned, k next statement, Len+1 finished
    err,      \* the shared error indicator (int err)
    caught,   \* units whose catch handler ran
    escaped,  \* units out of which an exception propagated
    trace,    \* per unit: the registry / queue / kernel calls it made
    Cval,     \* per tile of C: the update terms applied to it
    ticks,    \* per tile of A and B: number of tileTick calls
    queue,    \* per device: batched calls enqueued and not yet synchronized
    calls,    \* the batched / device calls issued, with their arguments
    hn        \* the state of one call of henorm (device_henorm.hip.cc)

vars == <<cfg, prog, phase, rejected, pc, err, caught, escaped, trace, Cval, ticks, queue,
          calls, hn>>

\* --------------------------------------------------------- the arguments
A_op == cfg.opA
B_op == cfg.opB
C_op == cfg.opC
C_uplo == cfg.uplo
is_real == cfg.is_real
C_nt == cfg.nt
C_mt == cfg.nt
num_devices == cfg.num_devices
SLATE_WITH_MKL == cfg.mkl

Tiles(n) == (0 .. n - 1) \X (0 .. n - 1)
Lower(n) == {t \in Tiles(n) : t[1] >= t[2]}

tileIsLocal(i, j) == cfg.place[<<i, j>>] # Remote
tileDevice(i, j) == cfg.place[<<i, j>>]

\* C.tileMb(i) = C.tileNb(i): every tile row/column has the nominal size but
\* the last, which may be smaller (C is square with a symmetric tiling)
tileMb(i) == IF i = C_mt - 1 THEN cfg.last ELSE TileNb
tileNb(j) == tileMb(j)
\* Tile::mb(), Tile::nb(): rows and columns of the logical tile t = <<m, i, j>>
\* (the tiles of A and B are in tile column 0 and have TileKb columns)
mb(t) == tileMb(t[2])
nb(t) == IF t[1] = "C" THEN tileNb(t[3]) ELSE TileKb
\* rows and columns of the data of the tile as stored
DataRows(t) ==
    IF (IF t[1] = "A" THEN cfg.opA ELSE IF t[1] = "B" THEN cfg.opB ELSE cfg.opC)
           \in {"Trans", "ConjTrans"}
    THEN nb(t) ELSE mb(t)
DataCols(t) ==
    IF (IF t[1] = "A" THEN cfg.opA ELSE IF t[1] = "B" THEN cfg.opB ELSE cfg.opC)
           \in {"Trans", "ConjTrans"}
    THEN mb(t) ELSE nb(t)
\* Tile::stride(): the leading dimension of the stored data, at least its
\* number of rows; cfg.padded are the tiles stored with a larger one
stride(t) == DataRows(t) + (IF t \in cfg.padded THEN 1 ELSE 0)

\* the tiles of the lower triangle in the order of the loops
\*   for j in 0..nt-1: for i in j..mt-1
RECURSIVE LoopOrder(_, _, _)
LoopOrder(n, i, j) ==
    IF j >= n THEN <<>>
    ELSE IF i >= n THEN LoopOrder(n, j + 1, j + 1)
    ELSE <<(<<i, j>>)>> \o LoopOrder(n, i + 1, j)

LowerSeq == LoopOrder(C_nt, 0, 0)

\* --------------------------------------------------- operator algebra
\* an operator (or a composition of operators) applied to an operand:
\* transposed or not, conjugated or not; conjugation is the identity for
\* real scalars ("Trans == ConjTrans if real")
IsTr(op) == op \in {"Trans", "ConjTrans"}
IsCj(op) == op \in {"ConjTrans", "Conj"} /\ ~is_real
MkOp(t, c) ==
    IF t THEN (IF c THEN "ConjTrans" ELSE "Trans")
    ELSE (IF c THEN "Conj" ELSE "NoTrans")
Compose(a, b) == MkOp(IsTr(a) # IsTr(b), IsCj(a) # IsCj(b))
ConjPart(op) == MkOp(FALSE, IsCj(op))
MatOp(m) == IF m = "A" THEN A_op ELSE IF m = "B" THEN B_op ELSE C_op

\* an update term applied to a tile of C, over the logical tiles of A and B:
\*   "gemm":  C <- alpha xop(X(xi)) yop(Y(yi)) + beta C
\*   "syr2k": C <- alpha xop(X(xi)) yop(Y(yi))^T + alpha yop(Y(yi)) xop(X(xi))^T + beta C
Term(f, x, xi, xop, y, yi, yop, beta) ==
    [f |-> f, x |-> x, xi |-> xi, xop |-> xop, y |-> y, yi |-> yi, yop |-> yop,
     beta |-> beta]

\* the term a BLAS gemm computes on the stored data of a tile of C, with
\* operators opX, opY applied to the stored data of tiles X = <<m, i>> and Y:
\* stored data = op(M) of the logical tile, logical C = op(C) of its data,
\* and (X Y)^T = Y^T X^T
BlasGemm(opX, X, opY, Y, beta) ==
    LET xs == Compose(Compose(opX, MatOp(X[1])), C_op)
        ys == Compose(Compose(opY, MatOp(Y[1])), C_op)
    IN  IF IsTr(C_op)
        THEN Term("gemm", Y[1], Y[2], ys, X[1], X[2], xs, beta)
        ELSE Term("gemm", X[1], X[2], xs, Y[1], Y[2], ys, beta)

\* the term a BLAS syr2k with operator trans computes on the stored data of
\* a diagonal tile of C (symmetric: transposing C changes nothing)
BlasSyr2k(trans, X, Y, beta) ==
    Term("syr2k",
         X[1], X[2], Compose(Compose(trans, MatOp(X[1])), ConjPart(C_op)),
         Y[1], Y[2], Compose(Compose(trans, MatOp(Y[1])), ConjPart(C_op)),
         beta)

\* ------------------------------------------------------------ statements
\* a call recorded in a unit's trace: e is the call, (m, i, j) the tile,
\* d the memory space
Ev(e, m, i, j, d) == [e |-> e, m |-> m, i |-> i, j |-> j, d |-> d]
\* an update of tile t of C
Upd(t, term) == [tile |-> t, term |-> term]
\* a statement: op is its kind, us the units it spawns or waits for,
\* items the registry calls it makes in order, upds the updates it applies
St(op, us, items, upds) == [op |-> op, us |-> us, items |-> items, upds |-> upds]

\* ------------------------------------------------------------------ units
Main == <<"main", 0, 0>>
Diag(j) == <<"diag", j, j>>
Off(i, j) == <<"off", i, j>>
Single == <<"single", 0, 0>>
Dev(d) == <<"dev", d, 0>>
Acq(d, n) == <<"acq", d, n>>

DiagUnits == {Diag(j) : j \in {k \in 0 .. C_nt - 1 : tileIsLocal(k, k)}}
OffUnits ==
    {Off(t[1], t[2]) : t \in {s \in Lower(C_nt) : s[1] > s[2] /\ tileIsLocal(s[1], s[2])}}
DevUnits == {Dev(d) : d \in 0 .. num_devices - 1}
AcqUnits(d) == {Acq(d, n) : n \in 1 .. 6}

\* --------------------------------------------- host units (tile kernels)
\* syr2k(alpha, A(j, 0), B(j, 0), beta, C(j, j))
TileSyr2k(j) ==
    Upd(<<j, j>>, Term("syr2k", "A", j, "NoTrans", "B", j, "NoTrans", "beta"))
\* gemm(alpha, A(i, 0), transpose(Bj0), beta, C(i, j))
TileGemm1(i, j) ==
    Upd(<<i, j>>, Term("gemm", "A", i, "NoTrans", "B", j, "Trans", "beta"))
\* gemm(alpha, B(i, 0), transpose(Aj0), scalar_t(1.0), C(i, j))
TileGemm2(i, j) ==
    Upd(<<i, j>>, Term("gemm", "B", i, "NoTrans", "A", j, "Trans", "one"))

\* the four tileTick calls that end every off-diagonal unit
OffTicks(i, j) ==
    <<Ev("tick", "A", i, 0, Host), Ev("tick", "A", j, 0, Host),
      Ev("tick", "B", i, 0, Host), Ev("tick", "B", j, 0, Host)>>

\* the task of a diagonal tile (the same body in HostTask, HostNest, HostBatch)
DiagProg(j) ==
    <<St("acquire", {}, <<Ev("getR", "A", j, 0, Host), Ev("getR", "B", j, 0, Host),
                          Ev("getW", "C", j, j, Host)>>, <<>>),
      St("kernel", {}, <<>>, <<TileSyr2k(j)>>),
      St("tick", {}, <<Ev("tick", "A", j, 0, Host), Ev("tick", "B", j, 0, Host)>>, <<>>)>>

\* mutant: the two gemm calls in the other order
HostTaskOffProg_Swapped(i, j) ==
    <<St("acquire", {}, <<Ev("getR", "A", i, 0, Host), Ev("getR", "A", j, 0, Host),
                          Ev("getR", "B", i, 0, Host), Ev("getR", "B", j, 0, Host),
                          Ev("getW", "C", i, j, Host)>>, <<>>),
      St("kernel", {}, <<>>, <<TileGemm2(i, j)>>),
      St("kernel", {}, <<>>, <<TileGemm1(i, j)>>),
      St("tick", {}, OffTicks(i, j), <<>>)>>

\* the task of an off-diagonal tile in HostTask
HostTaskOffProg(i, j) ==
    <<St("acquire", {}, <<Ev("getR", "A", i, 0, Host), Ev("getR", "A", j, 0, Host),
                          Ev("getR", "B", i, 0, Host), Ev("getR", "B", j, 0, Host),
                          Ev("getW", "C", i, j, Host)>>, <<>>),
      St("kernel", {}, <<>>, <<TileGemm1(i, j)>>),
      St("kernel", {}, <<>>, <<TileGemm2(i, j)>>),
      St("tick", {}, OffTicks(i, j), <<>>)>>

\* the iteration of an off-diagonal tile in the parallel loop of HostNest
HostNestOffProg(i, j) ==
    <<St("acquire", {}, <<Ev("getR", "A", i, 0, Host), Ev("getR", "B", j, 0, Host),
                          Ev("getW", "C", i, j, Host)>>, <<>>),
      St("kernel", {}, <<>>, <<TileGemm1(i, j)>>),
      St("kernel", {}, <<>>, <<TileGemm2(i, j)>>),
      St("tick", {}, OffTicks(i, j), <<>>)>>

\* ------------------------------------------------- main thread, host
HostTaskMain ==
    <<St("spawn", DiagUnits \cup OffUnits, <<>>, <<>>),
      St("taskwait", DiagUnits \cup OffUnits, <<>>, <<>>),
      St("finish", {}, <<>>, <<>>)>>

\* the parallel loop runs its iterations and joins them at its end; the
\* taskwait then joins the tasks of the diagonal tiles
HostNestMain ==
    <<St("spawn", DiagUnits, <<>>, <<>>),
      St("spawn", OffUnits, <<>>, <<>>),
      St("taskwait", OffUnits, <<>>, <<>>),
      St("taskwait", DiagUnits, <<>>, <<>>),
      St("finish", {}, <<>>, <<>>)>>

\* ------------------------------------------------------------ HostBatch
RECURSIVE Flatten(_)
Flatten(ss) == IF ss = <<>> THEN <<>> ELSE Head(ss) \o Flatten(Tail(ss))

IsLocalOff(t) == t[1] > t[2] /\ tileIsLocal(t[1], t[2])
\* for j in 0..nt-1: for i in j+1..mt-1: if C.tileIsLocal(i, j)
OffLocalSeq == SelectSeq(LowerSeq, IsLocalOff)
batch_count == Len(OffLocalSeq)

\* mutant: the pre-load loop starts at i = j and so takes the diagonal tiles too
HostBatchPreload_FromDiag ==
    LET ts == SelectSeq(LowerSeq, LAMBDA t : tileIsLocal(t[1], t[2]))
    IN  Flatten([k \in 1 .. Len(ts) |->
            <<Ev("getR", "A", ts[k][1], 0, Host), Ev("getR", "B", ts[k][2], 0, Host),
              Ev("getW", "C", ts[k][1], ts[k][2], Host)>>])

\* load off-diagonal tiles to host (on the dispatching thread, outside any try)
HostBatchPreload ==
    LET ts == OffLocalSeq
    IN  Flatten([k \in 1 .. Len(ts) |->
            <<Ev("getR", "A", ts[k][1], 0, Host), Ev("getR", "B", ts[k][2], 0, Host),
              Ev("getW", "C", ts[k][1], ts[k][2], Host)>>])

\* Op opA = A.op(); if (C.op() != NoTrans) { ... else throw }
HostBatch_opA ==
    IF C_op # "NoTrans"
    THEN IF A_op = "NoTrans" THEN C_op
         ELSE IF A_op = C_op \/ is_real THEN "NoTrans"
         ELSE "throw"
    ELSE A_op
\* Op opB = (opA == Op::NoTrans ? Op::Trans : Op::NoTrans);
HostBatch_opB == IF HostBatch_opA = "NoTrans" THEN "Trans" ELSE "NoTrans"

\* the pointer arrays as filled by the loop, before the swap
ai_filled == LET ts == OffLocalSeq IN [k \in 1 .. Len(ts) |-> <<"A", ts[k][1]>>]
aj_filled == LET ts == OffLocalSeq IN [k \in 1 .. Len(ts) |-> <<"A", ts[k][2]>>]
bi_filled == LET ts == OffLocalSeq IN [k \in 1 .. Len(ts) |-> <<"B", ts[k][1]>>]
bj_filled == LET ts == OffLocalSeq IN [k \in 1 .. Len(ts) |-> <<"B", ts[k][2]>>]
c_array == LET ts == OffLocalSeq IN [k \in 1 .. Len(ts) |-> ts[k]]

\* if (C.op() != Op::NoTrans) { swap(opA_array, opB_array); swap(ai_array, bj_array);
\*                              swap(aj_array, bi_array); ... }
HostBatchSwap == C_op # "NoTrans"
opA_array == IF HostBatchSwap THEN HostBatch_opB ELSE HostBatch_opA
opB_array == IF HostBatchSwap THEN HostBatch_opA ELSE HostBatch_opB
ai_array == IF HostBatchSwap THEN bj_filled ELSE ai_filled
bj_array == IF HostBatchSwap THEN ai_filled ELSE bj_filled
aj_array == IF HostBatchSwap THEN bi_filled ELSE aj_filled
bi_array == IF HostBatchSwap THEN aj_filled ELSE bi_filled

\* the tile <<m, i, 0>> behind a pointer <<m, i>> of A or B, and the tile
\* <<"C", i, j>> behind a pointer <<i, j>> of C
TileOf(x) == <<x[1], x[2], 0>>
CTile(t) == <<"C", t[1], t[2]>>

\* m_array[index] = C(i, j).mb(); n_array[index] = C(i, j).nb();
\* k_array[index] = A(i, 0).nb(); ld.._array[index] = ..stride()
m_filled == LET c == c_array IN [k \in 1 .. Len(c) |-> mb(CTile(c[k]))]
n_filled == LET c == c_array IN [k \in 1 .. Len(c) |-> nb(CTile(c[k]))]
k_array == LET a == ai_filled IN [k \in 1 .. Len(a) |-> nb(TileOf(a[k]))]
ldai_filled == LET a == ai_filled IN [k \in 1 .. Len(a) |-> stride(TileOf(a[k]))]
ldaj_filled == LET a == aj_filled IN [k \in 1 .. Len(a) |-> stride(TileOf(a[k]))]
ldbi_filled == LET b == bi_filled IN [k \in 1 .. Len(b) |-> stride(TileOf(b[k]))]
ldbj_filled == LET b == bj_filled IN [k \in 1 .. Len(b) |-> stride(TileOf(b[k]))]
ldc_array == LET c == c_array IN [k \in 1 .. Len(c) |-> stride(CTile(c[k]))]
\* swap(ldai_array, ldbj_array); swap(ldaj_array, ldbi_array); swap(m_array, n_array)
ldai_array == IF HostBatchSwap THEN ldbj_filled ELSE ldai_filled
ldbj_array == IF HostBatchSwap THEN ldai_filled ELSE ldbj_filled
ldaj_array == IF HostBatchSwap THEN ldbi_filled ELSE ldaj_filled
ldbi_array == IF HostBatchSwap THEN ldaj_filled ELSE ldbi_filled
m_array == IF HostBatchSwap THEN n_filled ELSE m_filled
n_array == IF HostBatchSwap THEN m_filled ELSE n_filled

\* the arguments of a batched call: X, Y are the first and the second
\* operand array passed, ldx, ldy their leading dimensions
BatchArgs(kind, dev, group, orient, opX, opY, m, n, k, X, ldx, Y, ldy, beta, c, ldc) ==
    [kind |-> kind, dev |-> dev, group |-> group, orient |-> orient,
     opA |-> opX, opB |-> opY, m |-> m, n |-> n, k |-> k,
     X |-> X, ldx |-> ldx, Y |-> Y, ldy |-> ldy, beta |-> beta,
     c |-> c, ldc |-> ldc, count |-> Len(c)]

\* mutant: the second call made with beta_array as it was filled
HostBatchArgs2_NoFill ==
    BatchArgs("gemm", Host, "host", 2, opA_array, opB_array, m_array, n_array, k_array,
              bi_array, ldbi_array, aj_array, ldaj_array,
              [k \in 1 .. Len(c_array) |-> "beta"], c_array, ldc_array)

\* the arguments of the two cblas_gemm_batch calls
HostBatchArgs1 ==
    BatchArgs("gemm", Host, "host", 1, opA_array, opB_array, m_array, n_array, k_array,
              ai_array, ldai_array, bj_array, ldbj_array,
              [k \in 1 .. Len(c_array) |-> "beta"], c_array, ldc_array)
HostBatchArgs2 ==
    BatchArgs("gemm", Host, "host", 2, opA_array, opB_array, m_array, n_array, k_array,
              bi_array, ldbi_array, aj_array, ldaj_array,
              [k \in 1 .. Len(c_array) |-> "one"], c_array, ldc_array)

\* cblas_gemm_batch(opA_array, opB_array, ..., ai_array, bj_array, beta_array, c_array)
HostBatchCall1 ==
    LET c == c_array
        X == ai_array
        Y == bj_array
    IN  [k \in 1 .. Len(c) |-> Upd(c[k], BlasGemm(opA_array, X[k], opB_array, Y[k], "beta"))]
\* mutant: the second call made without resetting beta_array to 1
HostBatchCall2_Beta ==
    LET c == c_array
        X == bi_array
        Y == aj_array
    IN  [k \in 1 .. Len(c) |-> Upd(c[k], BlasGemm(opA_array, X[k], opB_array, Y[k], "beta"))]

\* std::fill(beta_array, 1);
\* cblas_gemm_batch(opA_array, opB_array, ..., bi_array, aj_array, beta_array, c_array)
HostBatchCall2 ==
    LET c == c_array
        X == bi_array
        Y == aj_array
    IN  [k \in 1 .. Len(c) |-> Upd(c[k], BlasGemm(opA_array, X[k], opB_array, Y[k], "one"))]

HostBatchTicks ==
    LET ts == OffLocalSeq
    IN  Flatten([k \in 1 .. Len(ts) |-> OffTicks(ts[k][1], ts[k][2])])

\* #ifdef SLATE_WITH_MKL the two batched calls #else slate_not_implemented
HostBatchCalls ==
    IF SLATE_WITH_MKL
    THEN <<St("batch", {}, <<HostBatchArgs1>>, HostBatchCall1),
           St("batch", {}, <<HostBatchArgs2>>, HostBatchCall2)>>
    ELSE <<St("not_implemented", {}, <<>>, <<>>)>>

HostBatchMain ==
    <<St("spawn", DiagUnits, <<>>, <<>>),
      St("acquire", {}, HostBatchPreload, <<>>)>>
    \o (IF batch_count > 0
        THEN <<St("normalize", {}, <<>>, <<>>)>> \o HostBatchCalls
             \o <<St("tick", {}, HostBatchTicks, <<>>)>>
        ELSE <<>>)
    \o <<St("taskwait", DiagUnits, <<>>, <<>>),
         St("finish", {}, <<>>, <<>>)>>

\* -------------------------------------------------------------- Devices
\* mutant: the comparison with the device of the task left out
OnDev_AnyDevice(d, t) == tileIsLocal(t[1], t[2])

\* C.tileIsLocal(i, j) && device == C.tileDevice(i, j)
OnDev(d, t) == tileIsLocal(t[1], t[2]) /\ d = tileDevice(t[1], t[2])

RECURSIVE SortedSeq(_)
SortedSeq(S) ==
    IF S = {} THEN <<>>
    ELSE LET x == CHOOSE y \in S : \A z \in S : y <= z
         IN  <<x>> \o SortedSeq(S \ {x})

\* the std::set<ij_tuple> filled by the first loop of the device task
C_tiles_gemm(d) == SelectSeq(LowerSeq, LAMBDA t : OnDev(d, t) /\ t[1] # t[2])
C_tiles_syr2k(d) == SelectSeq(LowerSeq, LAMBDA t : OnDev(d, t) /\ t[1] = t[2])
A_tiles_gemm(d) ==
    LET c == C_tiles_gemm(d)
    IN  SortedSeq({c[k][1] : k \in 1 .. Len(c)} \cup {c[k][2] : k \in 1 .. Len(c)})
A_tiles_syr2k(d) ==
    LET c == C_tiles_syr2k(d)
    IN  SortedSeq({c[k][2] : k \in 1 .. Len(c)})

GetRows(m, rows, d) == [k \in 1 .. Len(rows) |-> Ev("getR", m, rows[k], 0, d)]
GetTilesW(ts, d) == [k \in 1 .. Len(ts) |-> Ev("getW", "C", ts[k][1], ts[k][2], d)]

\* the nested tasks: one tileGetForReading / tileGetForWriting of a whole set
AcqProg(d, n) ==
    <<St("acquire", {},
         CASE n = 1 -> GetRows("A", A_tiles_gemm(d), d)
           [] n = 2 -> GetRows("B", A_tiles_gemm(d), d)
           [] n = 3 -> GetTilesW(C_tiles_gemm(d), d)
           [] n = 4 -> GetRows("A", A_tiles_syr2k(d), d)
           [] n = 5 -> GetRows("B", A_tiles_syr2k(d), d)
           [] OTHER -> GetTilesW(C_tiles_syr2k(d), d),
         <<>>)>>

Devices_opA ==
    IF C_op # "NoTrans"
    THEN IF A_op = "NoTrans" THEN C_op
         ELSE IF A_op = C_op \/ is_real THEN "NoTrans"
         ELSE "throw"
    ELSE A_op
\* mutant: the second operator is Trans whatever the first
Devices_opB_Trans == "Trans"
Devices_opB == IF Devices_opA = "NoTrans" THEN "Trans" ELSE "NoTrans"

\* if (C.op() != Op::NoTrans) { swap(opA, opB); swap(a_array, b_array); ... }
\* mutant: the operators are not swapped with the operands
DevicesSwap_Never == FALSE
DevicesSwap == C_op # "NoTrans"
opA_ == IF DevicesSwap THEN Devices_opB ELSE Devices_opA
opB_ == IF DevicesSwap THEN Devices_opA ELSE Devices_opB

\* mutant: the interior loop runs to the last tile row
Interior_ToLastRow(d) ==
    SelectSeq(LowerSeq, LAMBDA t : t[2] < C_nt - 1 /\ t[1] > t[2] /\ t[1] < C_mt
                                   /\ OnDev(d, t))

\* interior: for j in 0..nt-2: for i in j+1..mt-2;  bottom row: i = mt-1, j in 0..nt-2
Interior(d) ==
    SelectSeq(LowerSeq, LAMBDA t : t[2] < C_nt - 1 /\ t[1] > t[2] /\ t[1] < C_mt - 1
                                   /\ OnDev(d, t))
BottomRow(d) ==
    SelectSeq(LowerSeq, LAMBDA t : t[2] < C_nt - 1 /\ t[1] = C_mt - 1 /\ OnDev(d, t))
\* diagonal: for j in 0..nt-2;  bottom-right corner: i = mt-1, j = nt-1.
\* When C has no tiles the corner query is made with the index (-1, -1);
\* cfg.oob is the place that query reports.
Diagonal(d) ==
    SelectSeq(LowerSeq, LAMBDA t : t[2] < C_nt - 1 /\ t[1] = t[2] /\ OnDev(d, t))
CornerOutOfRange(d) == C_nt = 0 /\ cfg.oob = d
Corner(d) ==
    IF C_nt > 0 /\ OnDev(d, <<C_mt - 1, C_nt - 1>>)
    THEN <<(<<C_mt - 1, C_nt - 1>>)>> ELSE <<>>

\* the pointer arrays of a gemm group as filled by the loops, for the
\* orientation o: 1 is A * B^T (A(i), B(j)), 2 is B * A^T (A(j), B(i))
a_filled_gemm(ts, o) ==
    [k \in 1 .. Len(ts) |-> <<"A", IF o = 1 THEN ts[k][1] ELSE ts[k][2]>>]
b_filled_gemm(ts, o) ==
    [k \in 1 .. Len(ts) |-> <<"B", IF o = 1 THEN ts[k][2] ELSE ts[k][1]>>]
\* lda = A(.., 0, device).stride() of the last tile pushed, 0 if none
StrideOfLast(xs) == IF xs = <<>> THEN 0 ELSE stride(TileOf(xs[Len(xs)]))
\* swap(a_array_gemm, b_array_gemm); swap(lda, ldb) when C is transposed:
\* made for each orientation
a_array_gemm(ts, o) == IF DevicesSwap THEN b_filled_gemm(ts, o) ELSE a_filled_gemm(ts, o)
b_array_gemm(ts, o) == IF DevicesSwap THEN a_filled_gemm(ts, o) ELSE b_filled_gemm(ts, o)
\* mutant: lda and ldb swapped for the first orientation only
lda_gemm_SwappedOnce(ts, o) ==
    IF DevicesSwap /\ o = 1 THEN StrideOfLast(b_filled_gemm(ts, o))
    ELSE StrideOfLast(a_filled_gemm(ts, o))
lda_gemm(ts, o) ==
    IF DevicesSwap THEN StrideOfLast(b_filled_gemm(ts, o))
    ELSE StrideOfLast(a_filled_gemm(ts, o))
ldb_gemm(ts, o) ==
    IF DevicesSwap THEN StrideOfLast(a_filled_gemm(ts, o))
    ELSE StrideOfLast(b_filled_gemm(ts, o))
ldc_gemm(ts) == IF ts = <<>> THEN 0 ELSE stride(CTile(ts[Len(ts)]))
\* mb00 = C.tileMb(0), nb00 = C.tileNb(0); mb10 = C.tileMb(C.mt()-1),
\* nb10 = C.tileNb(0); swap(mb, nb) when C is transposed: made once
mb_gemm(g) ==
    LET m0 == IF g = "00" THEN tileMb(0) ELSE tileMb(C_mt - 1)
    IN  IF DevicesSwap THEN tileNb(0) ELSE m0
nb_gemm(g) ==
    LET m0 == IF g = "00" THEN tileMb(0) ELSE tileMb(C_mt - 1)
    IN  IF DevicesSwap THEN m0 ELSE tileNb(0)

\* A * B^T: blas::batch::gemm(opA_, opB_, m, n, k, a_array, ldda, b_array, lddb,
\*                            beta_, c_array, lddc)
DevGemmArgs1(d, g, ts) ==
    BatchArgs("gemm", d, g, 1, opA_, opB_, mb_gemm(g), nb_gemm(g), TileKb,
              a_array_gemm(ts, 1), lda_gemm(ts, 1), b_array_gemm(ts, 1), ldb_gemm(ts, 1),
              "beta", ts, ldc_gemm(ts))
\* B * A^T: blas::batch::gemm(opA_, opB_, m, n, k, b_array, lddb, a_array, ldda,
\*                            one_, c_array, lddc)
DevGemmArgs2(d, g, ts) ==
    BatchArgs("gemm", d, g, 2, opA_, opB_, mb_gemm(g), nb_gemm(g), TileKb,
              b_array_gemm(ts, 2), ldb_gemm(ts, 2), a_array_gemm(ts, 2), lda_gemm(ts, 2),
              "one", ts, ldc_gemm(ts))
\* blas::batch::syr2k(uplo, opA_, n, k, a_array, ldda, b_array, lddb, beta_, c_array, lddc)
\* with nb_syr2k_0 = C.tileNb(0), nb_syr2k_1 = C.tileNb(C.nt()-1)
DevSyr2kArgs(d, g, ts) ==
    LET a_array == [k \in 1 .. Len(ts) |-> <<"A", ts[k][2]>>]
        b_array == [k \in 1 .. Len(ts) |-> <<"B", ts[k][2]>>]
        n == IF g = "0" THEN tileNb(0) ELSE tileNb(C_nt - 1)
    IN  BatchArgs("syr2k", d, g, 1, opA_, opA_, n, n, TileKb,
                  a_array, StrideOfLast(a_array), b_array, StrideOfLast(b_array),
                  "beta", ts, ldc_gemm(ts))

\* the updates of the entries of a batched gemm call on a device
DevGemm1(d, ts) ==
    LET X == a_array_gemm(ts, 1)
        Y == b_array_gemm(ts, 1)
    IN  [k \in 1 .. Len(ts) |-> Upd(ts[k], BlasGemm(opA_, X[k], opB_, Y[k], "beta"))]
DevGemm2(d, ts) ==
    LET X == b_array_gemm(ts, 2)
        Y == a_array_gemm(ts, 2)
    IN  [k \in 1 .. Len(ts) |-> Upd(ts[k], BlasGemm(opA_, X[k], opB_, Y[k], "one"))]
\* blas::batch::syr2k(uplo, opA_, a_array <- A(j), b_array <- B(j), beta_, c_array)
DevSyr2k(d, ts) ==
    [k \in 1 .. Len(ts) |->
        Upd(ts[k], BlasSyr2k(opA_, <<"A", ts[k][2]>>, <<"B", ts[k][2]>>, "beta"))]

\* mutant: the call issued whatever the size of the group
Enqueue_Always(args, upds) == <<St("enqueue", {}, <<args>>, upds)>>

\* a batched call is issued only for a group that is not empty:
\* if (c_array.size() > 0)
Enqueue(args, upds) ==
    IF Len(args.c) > 0 THEN <<St("enqueue", {}, <<args>>, upds)>> ELSE <<>>

\* the loop after queue->sync(): per tile of the device, four tileRelease
\* and then four tileTick
DevReleaseTick(d) ==
    LET ts == SelectSeq(LowerSeq, LAMBDA t : OnDev(d, t))
    IN  Flatten([k \in 1 .. Len(ts) |->
            LET i == ts[k][1]
                j == ts[k][2]
            IN  <<St("release", {}, <<Ev("release", "A", i, 0, d), Ev("release", "A", j, 0, d),
                                      Ev("release", "B", i, 0, d), Ev("release", "B", j, 0, d)>>,
                     <<>>),
                  St("tick", {}, OffTicks(i, j), <<>>)>>])

\* mutant: the tiles released before the queue is synchronized
DevSyncRelease_Late(d) == DevReleaseTick(d) \o <<St("sync", {}, <<>>, <<>>)>>

\* queue->sync(); and then the release / tick loop
DevSyncRelease(d) == <<St("sync", {}, <<>>, <<>>)>> \o DevReleaseTick(d)

\* the batched gemm calls of a device task: A * B^T on the interior and on
\* the bottom row, then B * A^T on the interior and on the bottom row
DevGemmCalls(d) ==
    Enqueue(DevGemmArgs1(d, "00", Interior(d)), DevGemm1(d, Interior(d)))
    \o Enqueue(DevGemmArgs1(d, "10", BottomRow(d)), DevGemm1(d, BottomRow(d)))
    \o Enqueue(DevGemmArgs2(d, "00", Interior(d)), DevGemm2(d, Interior(d)))
    \o Enqueue(DevGemmArgs2(d, "10", BottomRow(d)), DevGemm2(d, BottomRow(d)))
\* the batched syr2k calls of a device task: the diagonal, then the corner
DevSyr2kCalls(d) ==
    Enqueue(DevSyr2kArgs(d, "0", Diagonal(d)), DevSyr2k(d, Diagonal(d)))
    \o Enqueue(DevSyr2kArgs(d, "1", Corner(d)), DevSyr2k(d, Corner(d)))

\* the task of one device (general path)
DevProg(d) ==
    <<St("normalize", {}, <<>>, <<>>),
      St("spawn", {Acq(d, 1), Acq(d, 2), Acq(d, 3)}, <<>>, <<>>),
      St("taskwait", {Acq(d, 1), Acq(d, 2), Acq(d, 3)}, <<>>, <<>>)>>
    \o DevGemmCalls(d)
    \o <<St("spawn", {Acq(d, 4), Acq(d, 5), Acq(d, 6)}, <<>>, <<>>),
         St("taskwait", {Acq(d, 4), Acq(d, 5), Acq(d, 6)}, <<>>, <<>>)>>
    \o (IF CornerOutOfRange(d) THEN <<St("tile_out_of_range", {}, <<>>, <<>>)>> ELSE <<>>)
    \o DevSyr2kCalls(d)
    \o DevSyncRelease(d)

\* the task of the single tile of C (C.nt() == 1); it has no try block
\* mutant: the single-tile task ticks A(0, 0) and B(0, 0) once each
SingleProg_TickOnce ==
    LET device == tileDevice(0, 0)
    IN  <<St("acquire", {}, <<Ev("getR", "A", 0, 0, device), Ev("getR", "B", 0, 0, device),
                              Ev("getW", "C", 0, 0, device)>>, <<>>),
          St("enqueue", {},
             <<BatchArgs("syr2k", device, "single", 1, A_op, A_op,
                         nb(<<"C", 0, 0>>), nb(<<"C", 0, 0>>), nb(<<"A", 0, 0>>),
                         <<(<<"A", 0>>)>>, stride(<<"A", 0, 0>>),
                         <<(<<"B", 0>>)>>, stride(<<"B", 0, 0>>),
                         "beta", <<(<<0, 0>>)>>, stride(<<"C", 0, 0>>))>>,
             <<Upd(<<0, 0>>, BlasSyr2k(A_op, <<"A", 0>>, <<"B", 0>>, "beta"))>>),
          St("sync", {}, <<>>, <<>>),
          St("release", {}, <<Ev("release", "A", 0, 0, device),
                              Ev("release", "B", 0, 0, device)>>, <<>>),
          St("tick", {}, <<Ev("tick", "A", 0, 0, Host), Ev("tick", "B", 0, 0, Host)>>, <<>>)>>

SingleProg ==
    LET device == tileDevice(0, 0)
    IN  <<St("acquire", {}, <<Ev("getR", "A", 0, 0, device), Ev("getR", "B", 0, 0, device),
                              Ev("getW", "C", 0, 0, device)>>, <<>>),
          St("enqueue", {},
             <<BatchArgs("syr2k", device, "single", 1, A_op, A_op,
                         nb(<<"C", 0, 0>>), nb(<<"C", 0, 0>>), nb(<<"A", 0, 0>>),
                         <<(<<"A", 0>>)>>, stride(<<"A", 0, 0>>),
                         <<(<<"B", 0>>)>>, stride(<<"B", 0, 0>>),
                         "beta", <<(<<0, 0>>)>>, stride(<<"C", 0, 0>>))>>,
             <<Upd(<<0, 0>>, BlasSyr2k(A_op, <<"A", 0>>, <<"B", 0>>, "beta"))>>),
          St("sync", {}, <<>>, <<>>),
          St("release", {}, <<Ev("release", "A", 0, 0, device),
                              Ev("release", "B", 0, 0, device)>>, <<>>),
          St("tick", {}, <<Ev("tick", "A", 0, 0, Host), Ev("tick", "A", 0, 0, Host),
                           Ev("tick", "B", 0, 0, Host), Ev("tick", "B", 0, 0, Host)>>, <<>>)>>

DevicesMain ==
    IF C_nt = 1
    THEN LET us == IF tileIsLocal(0, 0) THEN {Single} ELSE {}
         IN  <<St("spawn", us, <<>>, <<>>),
               St("taskwait", us, <<>>, <<>>),
               St("finish", {}, <<>>, <<>>)>>
    ELSE <<St("spawn", DevUnits, <<>>, <<>>),
           St("taskwait", DevUnits, <<>>, <<>>),
           St("finish", {}, <<>>, <<>>)>>

\* ------------------------------------------------------- units of a call
target == cfg.target

Prog(u) ==
    CASE u[1] = "main" ->
            (CASE target = "HostTask" -> HostTaskMain
               [] target = "HostNest" -> HostNestMain
               [] target = "HostBatch" -> HostBatchMain
               [] OTHER -> DevicesMain)
      [] u[1] = "diag" -> DiagProg(u[2])
      [] u[1] = "off" ->
            IF target = "HostTask" THEN HostTaskOffProg(u[2], u[3])
            ELSE HostNestOffProg(u[2], u[3])
      [] u[1] = "single" -> SingleProg
      [] u[1] = "dev" -> DevProg(u[2])
      [] OTHER -> AcqProg(u[2], u[3])

Units ==
    {Main} \cup
    (CASE target \in {"HostTask", "HostNest"} -> DiagUnits \cup OffUnits
       [] target = "HostBatch" -> DiagUnits
       [] OTHER ->
            IF C_nt = 1 THEN (IF tileIsLocal(0, 0) THEN {Single} ELSE {})
            ELSE DevUnits \cup UNION {AcqUnits(d) : d \in 0 .. num_devices - 1})

\* what becomes of an exception thrown in the unit: caught by the try block
\* of a task body, propagated to the caller by the dispatching thread, or
\* leaving a task body that has no try block
Handler(u) ==
    CASE u[1] \in {"diag", "off", "dev"} -> "catch"
      [] u[1] = "main" -> "propagate"
      [] OTHER -> "escape"

\* mutant: the handler of the off-diagonal units clears the indicator
ErrLine_OffClears(u) ==
    IF u[1] = "off" THEN 0
    ELSE IF target = "HostTask" THEN Line_HostTask_diag ELSE Line_HostNest_diag

\* err = __LINE__ of the catch handler
ErrLine(u) ==
    CASE u[1] = "dev" -> Line_Devices
      [] u[1] = "diag" /\ target = "HostTask" -> Line_HostTask_diag
      [] u[1] = "diag" /\ target = "HostNest" -> Line_HostNest_diag
      [] u[1] = "diag" -> Line_HostBatch_diag
      [] u[1] = "off" /\ target = "HostTask" -> Line_HostTask_off
      [] OTHER -> Line_HostNest_off

\* mutant: every unit takes the queue of device 0
QueueOf_Device0(u) == 0
\* the compute queue a unit uses: C.compute_queue(device, queue_index)
QueueOf(u) == IF u[1] = "single" THEN tileDevice(0, 0) ELSE u[2]

Done(u) == pc[u] > Len(prog[u])
Spawned(u) == pc[u] > 0
Live(u) == Spawned(u) /\ ~Done(u)
Cur(u) == prog[u][pc[u]]

\* ------------------------------------------------------------------- Init
\* no call of henorm is in progress
HnIdle == [at |-> "idle"]

Places(tg, n) ==
    [Lower(n) -> {Remote} \cup (0 .. (IF tg = "Devices" THEN NumDevices ELSE 1) - 1)]

Init ==
    /\ \E tg \in Targets, up \in Uplos, oa \in Ops, ob \in Ops, oc \in Ops,
          re \in BOOLEAN, n \in 0 .. MaxNt :
         \E pl \in Places(tg, n),
            mk \in (IF tg = "HostBatch" THEN BOOLEAN ELSE {TRUE}),
            oo \in (IF tg = "Devices" /\ n = 0
                    THEN {Remote} \cup (0 .. NumDevices - 1) ELSE {Remote}) :
            cfg = [target |-> tg, uplo |-> up, opA |-> oa, opB |-> ob, opC |-> oc,
                   is_real |-> re, nt |-> n, place |-> pl, mkl |-> mk, oob |-> oo,
                   num_devices |-> IF tg = "Devices" THEN NumDevices ELSE 1,
                   last |-> TileNb, padded |-> {}]
    /\ prog = [u \in Units |-> Prog(u)]
    /\ phase = "entry"
    /\ rejected = FALSE
    /\ pc = [u \in Units |-> 0]
    /\ err = 0
    /\ caught = {}
    /\ escaped = {}
    /\ trace = [u \in Units |-> <<>>]
    /\ Cval = [t \in Tiles(C_nt) |-> <<>>]
    /\ ticks = [x \in {"A", "B"} \X (0 .. C_nt - 1) |-> 0]
    /\ queue = [d \in 0 .. num_devices - 1 |-> <<>>]
    /\ calls = <<>>
    /\ hn = HnIdle

\* ------------------------------------------------------------ the entry
\* mutant: the check without the comparison of op(A) and op(B)
Precondition_NoOpCheck ==
    /\ C_uplo = "Lower"
    /\ (is_real \/ (C_op # "ConjTrans" /\ A_op # "ConjTrans"))

\* mutant: ConjTrans accepted for complex matrices as well
Precondition_AnyOp ==
    /\ C_uplo = "Lower"
    /\ A_op = B_op

\* the condition under which syr2k<target, scalar_t> does not throw
Precondition ==
    /\ C_uplo = "Lower"
    /\ (is_real \/ (C_op # "ConjTrans" /\ A_op # "ConjTrans"))
    /\ A_op = B_op

\* mutant: the check made after the realization has been entered
Reject_AfterDispatch ==
    /\ phase' = "raised"
    /\ rejected' = TRUE
    /\ pc' = [pc EXCEPT ![Main] = 1]
    /\ UNCHANGED <<cfg, prog, err, caught, escaped, trace, Cval, ticks, queue,
                 calls, hn>>

\* throw std::exception(): nothing else has happened
Reject ==
    /\ phase' = "raised"
    /\ rejected' = TRUE
    /\ UNCHANGED <<cfg, prog, pc, err, caught, escaped, trace, Cval, ticks, queue,
                 calls, hn>>

\* the call of the realization selected by the target tag
Dispatch ==
    /\ phase' = "running"
    /\ pc' = [pc EXCEPT ![Main] = 1]
    /\ UNCHANGED <<cfg, prog, rejected, err, caught, escaped, trace, Cval, ticks, queue,
                 calls, hn>>

Entry ==
    /\ phase = "entry"
    /\ IF Precondition THEN Dispatch ELSE Reject

\* ------------------------------------------------------- the statements
\* a unit can take a step: the process has not been terminated
Ready(u, op) ==
    /\ phase \notin {"entry", "aborted"}
    /\ Live(u)
    /\ Cur(u).op = op

Advance(u) == pc' = [pc EXCEPT ![u] = @ + 1]

\* an exception is thrown by the current statement of u
Throw(u) ==
    CASE Handler(u) = "catch" ->
            /\ err' = ErrLine(u)
            /\ caught' = caught \cup {u}
            /\ pc' = [pc EXCEPT ![u] = Len(prog[u]) + 1]
            /\ UNCHANGED <<phase, escaped>>
      [] Handler(u) = "propagate" ->
            /\ phase' = "raised"
            /\ pc' = [pc EXCEPT ![u] = Len(prog[u]) + 1]
            /\ UNCHANGED <<err, caught, escaped>>
      [] OTHER ->
            /\ phase' = "aborted"
            /\ escaped' = escaped \cup {u}
            /\ UNCHANGED <<pc, err, caught>>

RECURSIVE ApplyUpds(_, _)
ApplyUpds(cv, upds) ==
    IF upds = <<>> THEN cv
    ELSE ApplyUpds([cv EXCEPT ![Head(upds).tile] = Append(@, Head(upds).term)], Tail(upds))

RECURSIVE ApplyTicks(_, _)
ApplyTicks(tk, items) ==
    IF items = <<>> THEN tk
    ELSE ApplyTicks([tk EXCEPT ![<<Head(items).m, Head(items).i>>] = @ + 1], Tail(items))

Record(u, events) == trace' = [trace EXCEPT ![u] = @ \o events]
KernelEvents(upds, d) ==
    [k \in 1 .. Len(upds) |->
        Ev(upds[k].term.f, "C", upds[k].tile[1], upds[k].tile[2], d)]

\* #pragma omp task / #pragma omp parallel for: the units exist and may run
Spawn(u) ==
    /\ Ready(u, "spawn")
    /\ pc' = [v \in DOMAIN pc |->
                IF v = u THEN pc[u] + 1 ELSE IF v \in Cur(u).us THEN 1 ELSE pc[v]]
    /\ UNCHANGED <<cfg, prog, phase, rejected, err, caught, escaped, trace, Cval, ticks, queue,
                 calls, hn>>

\* #pragma omp taskwait / the end of the parallel loop
Taskwait(u) ==
    /\ Ready(u, "taskwait")
    /\ \A v \in Cur(u).us : Done(v)
    /\ Advance(u)
    /\ UNCHANGED <<cfg, prog, phase, rejected, err, caught, escaped, trace, Cval, ticks, queue,
                 calls, hn>>

\* tileGetForReading / tileGetForWriting calls in sequence: all succeed
AcquireOk(u) ==
    /\ Ready(u, "acquire")
    /\ Record(u, Cur(u).items)
    /\ Advance(u)
    /\ UNCHANGED <<cfg, prog, phase, rejected, err, caught, escaped, Cval, ticks, queue,
                 calls, hn>>

\* ... or the f-th of them throws (no room in the memory space)
AcquireFail(u) ==
    /\ Ready(u, "acquire")
    /\ \E f \in 1 .. Len(Cur(u).items) :
          Record(u, SubSeq(Cur(u).items, 1, f - 1)
                    \o <<Ev("throw", Cur(u).items[f].m, Cur(u).items[f].i,
                             Cur(u).items[f].j, Cur(u).items[f].d)>>)
    /\ Throw(u)
    /\ UNCHANGED <<cfg, prog, rejected, Cval, ticks, queue,
                 calls, hn>>

\* a tile kernel on the host: syr2k or gemm
Kernel(u) ==
    /\ Ready(u, "kernel")
    /\ Cval' = ApplyUpds(Cval, Cur(u).upds)
    /\ Record(u, KernelEvents(Cur(u).upds, Host))
    /\ Advance(u)
    /\ UNCHANGED <<cfg, prog, phase, rejected, err, caught, escaped, ticks, queue,
                 calls, hn>>

\* cblas_gemm_batch: every entry of the batch, on the calling thread
GemmBatch(u) ==
    /\ Ready(u, "batch")
    /\ Cval' = ApplyUpds(Cval, Cur(u).upds)
    /\ calls' = Append(calls, Cur(u).items[1])
    /\ Record(u, <<Ev("batch", "C", 0, 0, Host)>>)
    /\ Advance(u)
    /\ UNCHANGED <<cfg, prog, phase, rejected, err, caught, escaped, ticks, queue, hn>>

\* tileTick calls in sequence
Tick(u) ==
    /\ Ready(u, "tick")
    /\ ticks' = ApplyTicks(ticks, Cur(u).items)
    /\ Record(u, Cur(u).items)
    /\ Advance(u)
    /\ UNCHANGED <<cfg, prog, phase, rejected, err, caught, escaped, Cval, queue,
                 calls, hn>>

\* tileRelease calls in sequence
Release(u) ==
    /\ Ready(u, "release")
    /\ Record(u, Cur(u).items)
    /\ Advance(u)
    /\ UNCHANGED <<cfg, prog, phase, rejected, err, caught, escaped, Cval, ticks, queue,
                 calls, hn>>

\* the computation of opA: throws on an illegal combination of operators
Normalize(u) ==
    /\ Ready(u, "normalize")
    /\ IF (IF u = Main THEN HostBatch_opA ELSE Devices_opA) = "throw"
       THEN Throw(u)
       ELSE Advance(u) /\ UNCHANGED <<phase, err, caught, escaped>>
    /\ UNCHANGED <<cfg, prog, rejected, trace, Cval, ticks, queue,
                 calls, hn>>

\* slate_not_implemented("slate::Target::HostBatch needs Intel MKL.")
NotImplemented(u) ==
    /\ Ready(u, "not_implemented")
    /\ Throw(u)
    /\ UNCHANGED <<cfg, prog, rejected, trace, Cval, ticks, queue,
                 calls, hn>>

\* A(j, 0, device) with j = -1: the tile does not exist
TileOutOfRange(u) ==
    /\ Ready(u, "tile_out_of_range")
    /\ Throw(u)
    /\ UNCHANGED <<cfg, prog, rejected, trace, Cval, ticks, queue,
                 calls, hn>>

\* blas::batch::gemm / blas::batch::syr2k / blas::syr2k on the device queue
EnqueueCall(u) ==
    /\ Ready(u, "enqueue")
    /\ queue' = [queue EXCEPT ![QueueOf(u)] = Append(@, Cur(u).upds)]
    /\ calls' = Append(calls, Cur(u).items[1])
    /\ Record(u, <<Ev("enqueue", "C", 0, 0, QueueOf(u))>>)
    /\ Advance(u)
    /\ UNCHANGED <<cfg, prog, phase, rejected, err, caught, escaped, Cval, ticks, hn>>

\* the device executes the calls of a queue in order, asynchronously
DeviceRun(d) ==
    /\ phase \notin {"entry", "aborted"}
    /\ queue[d] # <<>>
    /\ Cval' = ApplyUpds(Cval, Head(queue[d]))
    /\ queue' = [queue EXCEPT ![d] = Tail(@)]
    /\ UNCHANGED <<cfg, prog, phase, rejected, pc, err, caught, escaped, trace, ticks,
                 calls, hn>>

\* queue->sync(): returns when the queue is empty
Sync(u) ==
    /\ Ready(u, "sync")
    /\ queue[QueueOf(u)] = <<>>
    /\ Record(u, <<Ev("sync", "C", 0, 0, QueueOf(u))>>)
    /\ Advance(u)
    /\ UNCHANGED <<cfg, prog, phase, rejected, err, caught, escaped, Cval, ticks, queue,
                 calls, hn>>

\* if (err) throw std::exception();
Finish(u) ==
    /\ Ready(u, "finish")
    /\ phase' = IF err # 0 THEN "raised" ELSE "returned"
    /\ Advance(u)
    /\ UNCHANGED <<cfg, prog, rejected, err, caught, escaped, trace, Cval, ticks, queue,
                 calls, hn>>

Next ==
    \/ Entry
    \/ \E u \in DOMAIN pc : Spawn(u)
    \/ \E u \in DOMAIN pc : Taskwait(u)
    \/ \E u \in DOMAIN pc : AcquireOk(u)
    \/ \E u \in DOMAIN pc : AcquireFail(u)
    \/ \E u \in DOMAIN pc : Kernel(u)
    \/ \E u \in DOMAIN pc : GemmBatch(u)
    \/ \E u \in DOMAIN pc : Tick(u)
    \/ \E u \in DOMAIN pc : Release(u)
    \/ \E u \in DOMAIN pc : Normalize(u)
    \/ \E u \in DOMAIN pc : NotImplemented(u)
    \/ \E u \in DOMAIN pc : TileOutOfRange(u)
    \/ \E u \in DOMAIN pc : EnqueueCall(u)
    \/ \E u \in DOMAIN pc : Sync(u)
    \/ \E u \in DOMAIN pc : Finish(u)
    \/ \E d \in DOMAIN queue : DeviceRun(d)

Spec == Init /\ [][Next]_vars

\* ------------------------------------------------ the batch assembly
\* The arguments of the batched calls are a function of the arguments of
\* syr2k alone.  This specification draws them from larger sets (grids of up
\* to AsmMaxNt tile rows, AsmDevices devices, a smaller last tile, a tile
\* stored with a padded leading dimension) and lets the dispatching thread
\* of HostBatch, or the device tasks of Devices one after the other, issue
\* their batched calls in the order of the program, without acquisition
\* failures.  The batched host back-end is available.  In HostBatch a tile
\* is local or not; in Devices every tile is on one of the devices (for the
\* assembly on a device, a tile of another device is a tile that is not
\* local).  The padding is varied for the distribution that has every tile
\* in one place.
AsmUnits == {u \in Units : u[1] \in {"main", "single", "dev"}}
AsmRank(u) == IF u[1] = "main" THEN 0 ELSE 1 + u[2]
\* the statements of a unit that issue a batched call, in program order
AsmProg(u) ==
    CASE u[1] = "dev" -> DevGemmCalls(u[2]) \o DevSyr2kCalls(u[2])
      [] u[1] = "single" -> SelectSeq(SingleProg, LAMBDA st : st.op = "enqueue")
      [] OTHER -> IF target = "HostBatch" /\ batch_count > 0 THEN HostBatchCalls ELSE <<>>
\* tiles that may be stored with a leading dimension larger than their rows
AsmPadded(n) ==
    {{}} \cup {{<<m, i, 0>>} : m \in {"A", "B"}, i \in 0 .. n - 1}
         \cup {{<<"C", t[1], t[2]>>} : t \in Lower(n)}

InitAsm ==
    /\ \E tg \in {"HostBatch", "Devices"}, oa \in Ops, oc \in Ops, re \in BOOLEAN,
          n \in 0 .. AsmMaxNt, la \in 1 .. TileNb :
         \E pl \in [Lower(n) -> IF tg = "Devices" THEN 0 .. AsmDevices - 1
                                 ELSE {Remote, 0}] :
            \E pd \in (IF \A t \in Lower(n) : pl[t] = 0 THEN AsmPadded(n) ELSE {{}}) :
               cfg = [target |-> tg, uplo |-> "Lower", opA |-> oa, opB |-> oa, opC |-> oc,
                      is_real |-> re, nt |-> n, place |-> pl, mkl |-> TRUE, oob |-> Remote,
                      num_devices |-> IF tg = "Devices" THEN AsmDevices ELSE 1,
                      last |-> la, padded |-> pd]
    /\ Precondition
    /\ prog = [u \in AsmUnits |-> AsmProg(u)]
    /\ phase = "running"
    /\ rejected = FALSE
    /\ pc = [u \in AsmUnits |-> 1]
    /\ err = 0
    /\ caught = {}
    /\ escaped = {}
    /\ trace = [u \in AsmUnits |-> <<>>]
    /\ Cval = [t \in Tiles(C_nt) |-> <<>>]
    /\ ticks = [x \in {"A", "B"} \X (0 .. C_nt - 1) |-> 0]
    /\ queue = [d \in 0 .. num_devices - 1 |-> <<>>]
    /\ calls = <<>>
    /\ hn = HnIdle

\* a unit issues its next batched call; the units before it have finished
AsmIssue(u) ==
    /\ phase = "running"
    /\ Live(u)
    /\ \A v \in DOMAIN pc : AsmRank(v) < AsmRank(u) => Done(v)
    /\ calls' = Append(calls, Cur(u).items[1])
    /\ Advance(u)
    /\ UNCHANGED <<cfg, prog, phase, rejected, err, caught, escaped, trace, Cval, ticks,
                   queue, hn>>

\* the end of the call, once every unit is over
AsmFinish ==
    /\ phase = "running"
    /\ \A v \in DOMAIN pc : Done(v)
    /\ phase' = "returned"
    /\ UNCHANGED <<cfg, prog, rejected, pc, err, caught, escaped, trace, Cval, ticks, queue,
                   calls, hn>>

NextAsm ==
    \/ \E u \in DOMAIN pc : AsmIssue(u)
    \/ AsmFinish

SpecAsm == InitAsm /\ [][NextAsm]_vars

\* ------------------------------------------- Devices on several devices
\* Calls of syr2k on Target::Devices with QueueDevices devices, every tile
\* of C on one of them, and the tasks of the devices running concurrently.
\* C has at least one tile, so no index of a tile is out of range.
InitQueue ==
    /\ \E oc \in {"NoTrans", "Trans"}, n \in 1 .. QueueMaxNt :
         \E pl \in [Lower(n) -> 0 .. QueueDevices - 1] :
            cfg = [target |-> "Devices", uplo |-> "Lower", opA |-> "NoTrans",
                   opB |-> "NoTrans", opC |-> oc, is_real |-> TRUE, nt |-> n,
                   place |-> pl, mkl |-> TRUE, oob |-> Remote,
                   num_devices |-> QueueDevices, last |-> TileNb, padded |-> {}]
    /\ prog = [u \in Units |-> Prog(u)]
    /\ phase = "entry"
    /\ rejected = FALSE
    /\ pc = [u \in Units |-> 0]
    /\ err = 0
    /\ caught = {}
    /\ escaped = {}
    /\ trace = [u \in Units |-> <<>>]
    /\ Cval = [t \in Tiles(C_nt) |-> <<>>]
    /\ ticks = [x \in {"A", "B"} \X (0 .. C_nt - 1) |-> 0]
    /\ queue = [d \in 0 .. num_devices - 1 |-> <<>>]
    /\ calls = <<>>
    /\ hn = HnIdle

NextQueue ==
    \/ Entry
    \/ \E u \in DOMAIN pc : Spawn(u)
    \/ \E u \in DOMAIN pc : Taskwait(u)
    \/ \E u \in DOMAIN pc : AcquireOk(u)
    \/ \E u \in DOMAIN pc : AcquireFail(u)
    \/ \E u \in DOMAIN pc : Tick(u)
    \/ \E u \in DOMAIN pc : Release(u)
    \/ \E u \in DOMAIN pc : Normalize(u)
    \/ \E u \in DOMAIN pc : EnqueueCall(u)
    \/ \E u \in DOMAIN pc : Sync(u)
    \/ \E u \in DOMAIN pc : Finish(u)
    \/ \E d \in DOMAIN queue : DeviceRun(d)

QueueSpec == InitQueue /\ [][NextQueue]_vars

\* ------------------------------------------------ device_henorm.hip.cc
\* One call of device::henorm.  hn holds the arguments of the call, the
\* position of the host function, the operations issued on the stream of
\* the queue and what the device has done with them:
\*   at          "entry", "dispatch", "check", "returned", "fatal"
\*   device      hipSetDevice has been called
\*   stream      operations enqueued and not yet completed, in order
\*   pending     work-groups of the first kernel of stream not yet run
\*   launches    the kernel launches made, memsets: the memsets issued
\*   values      the output array; reads, writes: accesses per work-group
\*   error       what hipGetLastError() reports; checked: it was called
Norms == {"Max", "One", "Inf", "Fro", "Two"}
HnValLen == HnMaxBatch * (HnMaxN + 1)

\* the values of ldv the documentation of henorm admits
HnLdv(norm, n) ==
    CASE norm = "Max" -> {1}
      [] norm = "Fro" -> {2}
      [] OTHER -> {k \in 1 .. HnMaxN + 1 : k >= n}

\* the tile arrays: pointers to distinct tiles, in two orders
HnArrays(bc) == {[k \in 0 .. bc - 1 |-> k], [k \in 0 .. bc - 1 |-> bc - 1 - k]}

InitHenorm ==
    /\ cfg = [target |-> "Devices", uplo |-> "Lower", opA |-> "NoTrans", opB |-> "NoTrans",
              opC |-> "NoTrans", is_real |-> TRUE, nt |-> 0, place |-> <<>>, mkl |-> TRUE,
              oob |-> Remote, num_devices |-> 1, last |-> TileNb, padded |-> {}]
    /\ prog = <<>>
    /\ phase = "idle"
    /\ rejected = FALSE
    /\ pc = <<>>
    /\ err = 0
    /\ caught = {}
    /\ escaped = {}
    /\ trace = <<>>
    /\ Cval = <<>>
    /\ ticks = <<>>
    /\ queue = <<>>
    /\ calls = <<>>
    /\ \E norm \in Norms, up \in Uplos, n \in 0 .. HnMaxN, bc \in 0 .. HnMaxBatch,
          er \in BOOLEAN :
         \E ldv \in HnLdv(norm, n), arr \in HnArrays(bc) :
            hn = [at |-> "entry", norm |-> norm, uplo |-> up, n |-> n, ldv |-> ldv,
                  batch_count |-> bc, Aarray |-> arr, error |-> er,
                  device |-> FALSE, stream |-> <<>>, pending |-> {},
                  launches |-> <<>>, memsets |-> <<>>,
                  values |-> [s \in 0 .. HnValLen - 1 |-> "unset"],
                  reads |-> {}, writes |-> {}, checked |-> FALSE]

\* mutant: no quick return
HnQuick_Never == FALSE
\* if (batch_count == 0)
HnQuick == hn.batch_count = 0

HnOthers ==
    UNCHANGED <<cfg, prog, phase, rejected, pc, err, caught, escaped, trace, Cval, ticks,
                queue, calls>>

\* // quick return
HnQuickReturn ==
    /\ hn.at = "entry"
    /\ HnQuick
    /\ hn' = [hn EXCEPT !.at = "returned"]
    /\ HnOthers

\* hipSetDevice( queue.device() )
HnSetDevice ==
    /\ hn.at = "entry"
    /\ ~HnQuick
    /\ hn' = [hn EXCEPT !.at = "dispatch", !.device = TRUE]
    /\ HnOthers

\* mutant: the Frobenius branch clears one value per tile
HnMemsetCount_FroOne ==
    CASE hn.norm = "Max" -> hn.batch_count
      [] hn.norm \in {"One", "Inf"} -> hn.batch_count * hn.n
      [] OTHER -> hn.batch_count
\* the number of elements of values passed to blas::device_memset
HnMemsetCount ==
    CASE hn.norm = "Max" -> hn.batch_count
      [] hn.norm \in {"One", "Inf"} -> hn.batch_count * hn.n
      [] OTHER -> hn.batch_count * 2

\* the kernel of a norm
HnKernel ==
    CASE hn.norm = "Max" -> "henorm_max_kernel"
      [] hn.norm \in {"One", "Inf"} -> "henorm_one_kernel"
      [] OTHER -> "henorm_fro_kernel"

\* if (n == 0) blas::device_memset(values, 0, count, queue)
HnMemset ==
    /\ hn.at = "dispatch"
    /\ hn.norm \in {"Max", "One", "Inf", "Fro"}
    /\ hn.n = 0
    /\ hn' = [hn EXCEPT !.at = "check",
                        !.memsets = Append(@, HnMemsetCount),
                        !.stream = Append(@, [op |-> "memset", count |-> HnMemsetCount])]
    /\ HnOthers

\* else hipLaunchKernelGGL(kernel, dim3(batch_count), dim3(nb), ...)
HnLaunch ==
    /\ hn.at = "dispatch"
    /\ hn.norm \in {"Max", "One", "Inf", "Fro"}
    /\ hn.n # 0
    /\ LET l == [op |-> "launch", kernel |-> HnKernel, grid |-> hn.batch_count]
       IN  hn' = [hn EXCEPT !.at = "check",
                           !.launches = Append(@, l),
                           !.stream = Append(@, l),
                           !.pending = IF hn.stream = <<>> THEN 0 .. l.grid - 1 ELSE @]
    /\ HnOthers

\* mutant: the last branch taken for every other norm
HnNoBranch_AsFro ==
    /\ hn.at = "dispatch"
    /\ hn.norm \notin {"Max", "One", "Inf", "Fro"}
    /\ LET l == [op |-> "launch", kernel |-> "henorm_fro_kernel", grid |-> hn.batch_count]
       IN  hn' = [hn EXCEPT !.at = "check",
                           !.launches = Append(@, l),
                           !.stream = Append(@, l),
                           !.pending = IF hn.stream = <<>> THEN 0 .. l.grid - 1 ELSE @]
    /\ HnOthers

\* a norm that has no branch: nothing is issued
HnNoBranch ==
    /\ hn.at = "dispatch"
    /\ hn.norm \notin {"Max", "One", "Inf", "Fro"}
    /\ hn' = [hn EXCEPT !.at = "check"]
    /\ HnOthers

\* mutant: the status is read and the call returns whatever it is
HnCheck_NoAssert ==
    /\ hn.at = "check"
    /\ hn' = [hn EXCEPT !.at = "returned", !.checked = TRUE]
    /\ HnOthers

\* hipError_t error = hipGetLastError(); slate_assert(error == hipSuccess);
HnCheck ==
    /\ hn.at = "check"
    /\ hn' = [hn EXCEPT !.at = IF hn.error THEN "fatal" ELSE "returned",
                        !.checked = TRUE]
    /\ HnOthers

\* the stream after its first operation has completed
HnPop ==
    LET rest == Tail(hn.stream)
    IN  [stream |-> rest,
         pending |-> IF rest # <<>> /\ rest[1].op = "launch"
                     THEN 0 .. rest[1].grid - 1 ELSE {}]

\* the device executes a memset: count elements from values[0]
HnDevMemset ==
    /\ hn.stream # <<>>
    /\ hn.stream[1].op = "memset"
    /\ hn' = [hn EXCEPT !.values = [s \in DOMAIN @ |->
                                       IF s < hn.stream[1].count THEN "zero" ELSE @[s]],
                        !.stream = HnPop.stream,
                        !.pending = HnPop.pending]
    /\ HnOthers

\* mutant: every work-group takes the first tile of the array
HnTile_First(k) == hn.Aarray[0]
\* scalar_t const* tile = Aarray[ blockIdx.x ]
HnTile(k) == hn.Aarray[k]

\* the elements (i, j) of the tile that the threads of a work-group read:
\* for every row i the stored triangle's part of it and the diagonal, and
\* in henorm_one_kernel the part of column i beyond the diagonal as well
HnElements ==
    LET N == 0 .. hn.n - 1
        row(i) == IF hn.uplo = "Lower" THEN {<<i, j>> : j \in {c \in N : c <= i}}
                  ELSE {<<i, j>> : j \in {c \in N : c >= i}}
        col(i) == IF hn.uplo = "Lower" THEN {<<r, i>> : r \in {c \in N : c > i}}
                  ELSE {<<r, i>> : r \in {c \in N : c < i}}
    IN  UNION {row(i) \cup (IF hn.stream[1].kernel = "henorm_one_kernel" THEN col(i) ELSE {})
               : i \in N}

\* the elements of values a work-group writes
HnSlots(k) ==
    CASE hn.stream[1].kernel = "henorm_max_kernel" -> {k}
      [] hn.stream[1].kernel = "henorm_one_kernel" ->
            {k * hn.ldv + c : c \in 0 .. hn.n - 1}
      [] OTHER -> {k * 2, k * 2 + 1}

\* work-group k (blockIdx.x = k) of the running kernel, all its threads
HnBlock(k) ==
    /\ hn.stream # <<>>
    /\ hn.stream[1].op = "launch"
    /\ k \in hn.pending
    /\ LET left == hn.pending \ {k}
           tile == HnTile(k)
       IN  hn' = [hn EXCEPT
                    !.reads = @ \cup {<<k, tile, e[1], e[2]>> : e \in HnElements},
                    !.writes = @ \cup {<<k, s>> : s \in HnSlots(k)},
                    !.values = [s \in DOMAIN @ |->
                                  IF s \in HnSlots(k) THEN <<hn.stream[1].kernel, tile, s>>
                                  ELSE @[s]],
                    !.stream = IF left = {} THEN HnPop.stream ELSE @,
                    !.pending = IF left = {} THEN HnPop.pending ELSE left]
    /\ HnOthers

NextHenorm ==
    \/ HnQuickReturn
    \/ HnSetDevice
    \/ HnMemset
    \/ HnLaunch
    \/ HnNoBranch
    \/ HnCheck
    \/ HnDevMemset
    \/ \E k \in 0 .. HnMaxBatch - 1 : HnBlock(k)

HenormSpec == InitHenorm /\ [][NextHenorm]_vars

\* ------------------------------------------- the kernels of henorm
\* One work-group (thread block) of henorm_max_kernel, henorm_one_kernel or
\* henorm_fro_kernel on one tile, thread by thread.  hn holds
\*   kernel, uplo, n, dim (blockDim.x)
\*   tile     the n-by-n stored array: the declared triangle and the other
\*   im       the imaginary part of the diagonal elements
\*   th       per thread: pc and loop index i
\*   row      the shared array(s) of partial results, set: entries written
\*   out      the elements of the output of this tile, wrote: those written
\*   reads    per element of the tile: how many times it has been read
\* A floating-point value is <<x>> for the number x and <<>> for NaN.
Num(x) == <<x>>
NaN == <<>>
IsNan(v) == v = <<>>

\* abs() of a real value
Abs(v) == IF IsNan(v) THEN NaN ELSE IF v[1] < 0 THEN Num(0 - v[1]) ELSE v

\* the maximum of two values, NaN dominant
max_nan(x, y) == IF IsNan(x) \/ IsNan(y) THEN NaN ELSE IF y[1] >= x[1] THEN y ELSE x

\* sum of two values
Plus(x, y) == IF IsNan(x) \/ IsNan(y) THEN NaN ELSE Num(x[1] + y[1])

\* (a / b)^2; the magnitudes of the tiles are 0 or 1, so it is an integer
Sqr(a, b) == (a * a) \div (b * b)

\* scale^2 sumsq := scale^2 sumsq + absx^2
add_sumsq(p, absx) ==
    IF IsNan(absx) \/ IsNan(p.scale) \/ IsNan(p.sumsq) THEN [scale |-> NaN, sumsq |-> NaN]
    ELSE IF p.scale[1] < absx[1]
         THEN [scale |-> absx, sumsq |-> Num(1 + p.sumsq[1] * Sqr(p.scale[1], absx[1]))]
    ELSE IF p.scale[1] # 0
         THEN [scale |-> p.scale, sumsq |-> Num(p.sumsq[1] + Sqr(absx[1], p.scale[1]))]
    ELSE p

\* scale1^2 sumsq1 := scale1^2 sumsq1 + scale2^2 sumsq2: the pair with the
\* smaller scale is rescaled before adding
combine_sumsq(p, q) ==
    IF IsNan(p.scale) \/ IsNan(p.sumsq) \/ IsNan(q.scale) \/ IsNan(q.sumsq)
    THEN [scale |-> NaN, sumsq |-> NaN]
    ELSE IF p.scale[1] > q.scale[1]
         THEN [scale |-> p.scale,
               sumsq |-> Num(p.sumsq[1] + q.sumsq[1] * Sqr(q.scale[1], p.scale[1]))]
    ELSE IF q.scale[1] # 0
         THEN [scale |-> q.scale,
               sumsq |-> Num(p.sumsq[1] * Sqr(p.scale[1], q.scale[1]) + q.sumsq[1])]
    ELSE p

\* the stored values: 0, -1 and NaN
KnValues == {Num(0), Num(0 - 1), NaN}
\* what an uninitialized element of shared memory may hold
KnGarbage == {Num(0), Num(5), NaN}

KnInTriangle(up, e) == IF up = "Lower" THEN e[2] <= e[1] ELSE e[2] >= e[1]

\* the tiles: numbers in the declared triangle with at most one NaN among
\* them, and one value (0 or NaN) in all of the other triangle
KnTiles(up, n) ==
    LET E == (0 .. n - 1) \X (0 .. n - 1)
        T == {e \in E : KnInTriangle(up, e)}
    IN  {[e \in E |-> IF e \in T THEN (IF e = x THEN NaN ELSE Num(0 - f[e])) ELSE other] :
            f \in [T -> {0, 1}], x \in T \cup {<<n, n>>}, other \in {Num(0), NaN}}

InitKernel ==
    /\ cfg = [target |-> "Devices", uplo |-> "Lower", opA |-> "NoTrans", opB |-> "NoTrans",
              opC |-> "NoTrans", is_real |-> TRUE, nt |-> 0, place |-> <<>>, mkl |-> TRUE,
              oob |-> Remote, num_devices |-> 1, last |-> TileNb, padded |-> {}]
    /\ prog = <<>>
    /\ phase = "idle"
    /\ rejected = FALSE
    /\ pc = <<>>
    /\ err = 0
    /\ caught = {}
    /\ escaped = {}
    /\ trace = <<>>
    /\ Cval = <<>>
    /\ ticks = <<>>
    /\ queue = <<>>
    /\ calls = <<>>
    /\ \E kn \in {"henorm_max_kernel", "henorm_one_kernel", "henorm_fro_kernel"},
          up \in Uplos, n \in 1 .. KnMaxN, dim \in 1 .. KnMaxDim :
         \E tl \in KnTiles(up, n), im \in {Num(0), NaN},
            b \in (IF kn = "henorm_one_kernel" THEN 0 .. KnBlocks - 1 ELSE {0}),
            ldv \in (IF kn = "henorm_one_kernel" THEN {n, n + 1} ELSE {n}) :
            hn = [at |-> "kernel", kernel |-> kn, uplo |-> up, n |-> n, dim |-> dim,
                  tile |-> tl, im |-> im, block |-> b, ldv |-> ldv,
                  writes |-> [sl \in 0 .. KnBlocks * (KnMaxN + 1) |-> <<>>],
                  th |-> [t \in 0 .. dim - 1 |->
                            [pc |-> IF kn = "henorm_max_kernel" THEN "init" ELSE "loop",
                             i |-> t]],
                  row |-> [c \in 0 .. dim - 1 |-> [scale |-> Num(0), sumsq |-> Num(0)]],
                  set |-> {},
                  out |-> [c \in 0 .. n - 1 |-> [scale |-> Num(0), sumsq |-> Num(0)]],
                  wrote |-> {},
                  reads |-> [e \in (0 .. n - 1) \X (0 .. n - 1) |-> 0]]

\* mutant: the loop over the row runs over every column but the diagonal
KnRowElems_WholeRow(i) ==
    [k \in 1 .. hn.n - 1 |-> <<i, IF k - 1 < i THEN k - 1 ELSE k>>]
\* the off-diagonal elements of row i that a thread reads, in order:
\* row[j*lda] for j = 0 .. i-1 (Lower) or for j = n-1 down to i+1 (Upper)
KnRowElems(i) ==
    IF hn.uplo = "Lower" THEN [k \in 1 .. i |-> <<i, k - 1>>]
    ELSE [k \in 1 .. hn.n - 1 - i |-> <<i, hn.n - k>>]

\* column[i] for i = k+1 .. n-1 (Lower) or for i = 0 .. k-1 (Upper)
KnColumnElems(k) ==
    IF hn.uplo = "Lower" THEN [r \in 1 .. hn.n - 1 - k |-> <<k + r, k>>]
    ELSE [r \in 1 .. k |-> <<r - 1, k>>]

\* mutant: the absolute value of the diagonal element, imaginary part included
KnDiag_Whole(i) == IF IsNan(hn.im) THEN NaN ELSE Abs(hn.tile[<<i, i>>])
\* abs( real( row[j*lda] ) ) with j = i
KnDiag(i) == Abs(hn.tile[<<i, i>>])

\* hn.reads after the elements of es and the diagonal element d are read
KnRead(es, d) ==
    [e \in DOMAIN hn.reads |->
        hn.reads[e] + Cardinality({k \in DOMAIN es : es[k] = e}) + (IF e = d THEN 1 ELSE 0)]

\* the value of row[c] as a thread reads it
KnShared(c) == IF c \in hn.set THEN {hn.row[c]}
               ELSE {[scale |-> g, sumsq |-> g] : g \in KnGarbage}

KnOthers ==
    UNCHANGED <<cfg, prog, phase, rejected, pc, err, caught, escaped, trace, Cval, ticks,
                queue, calls>>

KnAt(t, kn, at) ==
    /\ hn.at = "kernel" /\ hn.kernel = kn
    /\ t \in DOMAIN hn.th /\ hn.th[t].pc = at

\* henorm_max_kernel: row_max[threadIdx.x] = 0
KnMaxInit(t) ==
    /\ KnAt(t, "henorm_max_kernel", "init")
    /\ hn' = [hn EXCEPT !.row[t].scale = Num(0), !.set = @ \cup {t}, !.th[t].pc = "loop"]
    /\ KnOthers

RECURSIVE KnMaxOver(_, _)
KnMaxOver(es, max) ==
    IF es = <<>> THEN max
    ELSE KnMaxOver(Tail(es), max_nan(max, Abs(hn.tile[Head(es)])))

\* mutant: the partial maximum of a later row of the thread replaces row_max[chunk]
KnMaxRowValue_Last(i, old) == max_nan(KnMaxOver(KnRowElems(i), Num(0)), KnDiag(i))
\* row_max[chunk] after row i: max_nan(max, row_max[chunk])
KnMaxRowValue(i, old) ==
    max_nan(max_nan(KnMaxOver(KnRowElems(i), Num(0)), KnDiag(i)),
            IF i < hn.dim THEN Num(0) ELSE old)

\* henorm_max_kernel: one iteration of the loop over the rows of the thread
KnMaxRow(t) ==
    /\ KnAt(t, "henorm_max_kernel", "loop")
    /\ hn.th[t].i < hn.n
    /\ LET i == hn.th[t].i
           chunk == i % hn.dim
       IN  \E old \in KnShared(chunk) :
              hn' = [hn EXCEPT !.row[chunk].scale = KnMaxRowValue(i, old.scale),
                               !.set = @ \cup {chunk},
                               !.reads = KnRead(KnRowElems(i), <<i, i>>),
                               !.th[t].i = i + hn.dim]
    /\ KnOthers

\* the end of the loop of a thread: __syncthreads() in henorm_max_kernel,
\* the reduction (thread 0) or the end of the thread in henorm_fro_kernel,
\* the end of the thread in henorm_one_kernel
KnLoopEnd(t) ==
    /\ hn.at = "kernel" /\ t \in DOMAIN hn.th
    /\ hn.th[t].pc = "loop"
    /\ hn.th[t].i >= hn.n
    /\ hn' = [hn EXCEPT !.th[t].pc =
                 CASE hn.kernel = "henorm_max_kernel" -> "sync"
                   [] hn.kernel = "henorm_fro_kernel" /\ t = 0 -> "tail"
                   [] OTHER -> "done"]
    /\ KnOthers

\* max_nan_reduce(blockDim.x, threadIdx.x, row_max): row_max[0] becomes the
\* NaN-dominant maximum of the blockDim.x entries
RECURSIVE max_nan_reduce(_, _)
max_nan_reduce(n, x) ==
    IF n = 1 THEN x[0] ELSE max_nan(max_nan_reduce(n - 1, x), x[n - 1])

\* henorm_max_kernel: all threads have reached __syncthreads(); the
\* reduction, and tiles_maxima[blockIdx.x] = row_max[0] by thread 0
KnMaxReduce ==
    /\ hn.at = "kernel" /\ hn.kernel = "henorm_max_kernel"
    /\ \A t \in DOMAIN hn.th : hn.th[t].pc = "sync"
    /\ \E x \in [DOMAIN hn.row -> KnGarbage \cup {Num(1)}] :
          /\ \A c \in DOMAIN hn.row : x[c] \in {r.scale : r \in KnShared(c)}
          /\ hn' = [hn EXCEPT !.out[0].scale = max_nan_reduce(hn.dim, x),
                              !.wrote = @ \cup {0},
                              !.th = [t \in DOMAIN @ |-> [@[t] EXCEPT !.pc = "done"]]]
    /\ KnOthers

RECURSIVE KnSumOver(_, _)
KnSumOver(es, sum) ==
    IF es = <<>> THEN sum
    ELSE KnSumOver(Tail(es), Plus(sum, Abs(hn.tile[Head(es)])))

\* henorm_one_kernel: one iteration: the sum of row / column k, and
\* tiles_sums[ blockIdx.x*ldv + k ] = sum
\* mutant: the output indexed without the stride of the tile
KnOneSlot_NoStride(k) == hn.block + k
\* tiles_sums[ blockIdx.x*ldv + k ]
KnOneSlot(k) == hn.block * hn.ldv + k

KnOneColumn(t) ==
    /\ KnAt(t, "henorm_one_kernel", "loop")
    /\ hn.th[t].i < hn.n
    /\ LET k == hn.th[t].i
           sum == KnSumOver(KnColumnElems(k),
                            Plus(KnSumOver(KnRowElems(k), Num(0)), KnDiag(k)))
       IN  hn' = [hn EXCEPT !.out[k].scale = sum,
                           !.wrote = @ \cup {k},
                           !.writes[KnOneSlot(k)] = Append(@, t),
                           !.reads = KnRead(KnRowElems(k) \o KnColumnElems(k), <<k, k>>),
                           !.th[t].i = k + hn.dim]
    /\ KnOthers

RECURSIVE KnSumsqOver(_, _)
KnSumsqOver(es, p) ==
    IF es = <<>> THEN p
    ELSE KnSumsqOver(Tail(es), add_sumsq(p, Abs(hn.tile[Head(es)])))

Times2(v) == IF IsNan(v) THEN NaN ELSE Num(2 * v[1])

\* mutant: the diagonal is added before sumsq is doubled
KnFroRowValue_DoubleAll(i) ==
    LET off == KnSumsqOver(KnRowElems(i), [scale |-> Num(0), sumsq |-> Num(1)])
        all == add_sumsq(off, KnDiag(i))
    IN  [all EXCEPT !.sumsq = Times2(@)]
\* (scale, sumsq) of row i: the off-diagonal elements, sumsq *= 2, the diagonal
KnFroRowValue(i) ==
    LET off == KnSumsqOver(KnRowElems(i), [scale |-> Num(0), sumsq |-> Num(1)])
    IN  add_sumsq([off EXCEPT !.sumsq = Times2(@)], KnDiag(i))

\* henorm_fro_kernel: one iteration of the loop over the rows of the
\* thread, up to its __syncthreads()
KnFroRow(t) ==
    /\ KnAt(t, "henorm_fro_kernel", "loop")
    /\ hn.th[t].i < hn.n
    /\ LET i == hn.th[t].i
           chunk == i % hn.dim
       IN  \E old \in (IF i < hn.dim THEN {[scale |-> Num(0), sumsq |-> Num(1)]}
                       ELSE KnShared(chunk)) :
              hn' = [hn EXCEPT !.row[chunk] = combine_sumsq(old, KnFroRowValue(i)),
                               !.set = @ \cup {chunk},
                               !.reads = KnRead(KnRowElems(i), <<i, i>>),
                               !.th[t].pc = "barrier"]
    /\ KnOthers

\* mutant: a thread goes on without waiting for the others
KnBarrierOpen_NoWait == TRUE
\* mutant: the barrier waits for every thread of the work-group
KnBarrierOpen_AllThreads == \A t \in DOMAIN hn.th : hn.th[t].pc = "barrier"
\* __syncthreads() inside the loop: every thread that is still in the loop
\* has arrived (the threads that have left the loop no longer take part)
KnBarrierOpen == \A t \in DOMAIN hn.th : hn.th[t].pc \in {"barrier", "tail", "done"}

KnFroBarrier ==
    /\ hn.at = "kernel" /\ hn.kernel = "henorm_fro_kernel"
    /\ \E t \in DOMAIN hn.th : hn.th[t].pc = "barrier"
    /\ KnBarrierOpen
    /\ hn' = [hn EXCEPT !.th = [t \in DOMAIN @ |->
                                   IF @[t].pc = "barrier"
                                   THEN [pc |-> "loop", i |-> @[t].i + hn.dim] ELSE @[t]]]
    /\ KnOthers

\* combine_sumsq(tile_scale, tile_sumsq, row_scale[chunk], row_sumsq[chunk])
\* for chunk = c, c + 1, ..., while chunk < blockDim.x && chunk < n
\* mutant: the reduction runs over every entry of the shared arrays
KnFroMore_AllChunks(c) == c < hn.dim
\* chunk < blockDim.x && chunk < n
KnFroMore(c) == c < hn.dim /\ c < hn.n

RECURSIVE KnFroTiles(_, _)
KnFroTiles(c, ps) ==
    IF ~KnFroMore(c) THEN ps
    ELSE KnFroTiles(c + 1, {combine_sumsq(p, q) : p \in ps, q \in KnShared(c)})

\* henorm_fro_kernel: the reduction by thread 0, and
\* tiles_values[blockIdx.x*2 + 0] = tile_scale, [.. + 1] = tile_sumsq
KnFroTail ==
    /\ KnAt(0, "henorm_fro_kernel", "tail")
    /\ \E p \in KnFroTiles(1, KnShared(0)) :
          hn' = [hn EXCEPT !.out[0] = p, !.wrote = @ \cup {0, 1}, !.th[0].pc = "done"]
    /\ KnOthers

NextKernel ==
    \/ \E t \in 0 .. KnMaxDim - 1 : KnMaxInit(t)
    \/ \E t \in 0 .. KnMaxDim - 1 : KnMaxRow(t)
    \/ \E t \in 0 .. KnMaxDim - 1 : KnLoopEnd(t)
    \/ KnMaxReduce
    \/ \E t \in 0 .. KnMaxDim - 1 : KnOneColumn(t)
    \/ \E t \in 0 .. KnMaxDim - 1 : KnFroRow(t)
    \/ KnFroBarrier
    \/ KnFroTail

KernelSpec == InitKernel /\ [][NextKernel]_vars

\* henorm_fro_kernel alone; the device runs every thread of a resident
\* work-group that can take a step
InitFro == InitKernel /\ hn.kernel = "henorm_fro_kernel"
NextFro ==
    \/ \E t \in 0 .. KnMaxDim - 1 : KnFroRow(t)
    \/ KnFroBarrier
    \/ \E t \in 0 .. KnMaxDim - 1 : KnLoopEnd(t)
    \/ KnFroTail
FroFairSpec == InitFro /\ [][NextFro]_vars /\ WF_vars(NextFro)

\* ================================================================ claims
Events(u, es) == SelectSeq(trace[u], LAMBDA x : x.e \in es)
IsPrefix(a, b) == Len(a) <= Len(b) /\ a = SubSeq(b, 1, Len(a))
LocalLower == {t \in Lower(C_nt) : tileIsLocal(t[1], t[2])}
Workers == DOMAIN pc \ {Main}

\* C1: whenever the call raises to its caller, every unit of work spawned by
\* the call has already finished (no unit is still pending or running).
C1_RaisedOnlyAfterJoin ==
    phase = "raised" => \A u \in Workers : ~Live(u)

\* C2: no failure raised inside a concurrent unit escapes that unit.
C2_NoFailureEscapes == escaped = {}

\* C3: the entry point raises exactly when C's triangle is not Lower, or
\* op(A) differs from op(B), or C is complex and one of op(A), op(B), op(C)
\* is ConjTrans; in every other case it proceeds to the realization.
C3_RejectsExactly ==
    phase # "entry" =>
        /\ rejected <=>
              \/ C_uplo # "Lower"
              \/ A_op # B_op
              \/ ~is_real /\ "ConjTrans" \in {A_op, B_op, C_op}
        /\ rejected => phase = "raised" /\ ~Spawned(Main)
        /\ ~rejected => Spawned(Main)

C3_Witness ==
    /\ rejected /\ C_uplo = "Lower" /\ A_op = "Trans" /\ B_op = "Trans"
    /\ C_op = "ConjTrans" /\ ~is_real

\* C4: when the entry check rejects the call, nothing else has happened: no
\* unit spawned, no tile acquired, written, released or ticked, no batched
\* or device call issued, no error recorded.
C4_RejectChangesNothing ==
    rejected =>
        /\ phase = "raised"
        /\ \A u \in DOMAIN pc : pc[u] = 0 /\ trace[u] = <<>>
        /\ \A t \in DOMAIN Cval : Cval[t] = <<>>
        /\ \A x \in DOMAIN ticks : ticks[x] = 0
        /\ \A d \in DOMAIN queue : queue[d] = <<>>
        /\ err = 0 /\ caught = {} /\ escaped = {}

C4_Witness == rejected /\ C_nt = MaxNt /\ LocalLower = Lower(C_nt) /\ C_uplo = "Upper"

\* C5: in HostTask and HostNest the error indicator is non-zero exactly when
\* some unit caught an error (it is never reset), and after the terminal
\* join the call raises if and only if at least one unit caught an error.
C5_RaisesIffCaught ==
    target \in {"HostTask", "HostNest"} /\ ~rejected =>
        /\ err # 0 <=> caught # {}
        /\ phase = "raised" => caught # {} /\ Done(Main)
        /\ phase = "returned" => caught = {} /\ Done(Main)
        /\ Done(Main) => phase \in {"raised", "returned"}

C5_Witness ==
    /\ target = "HostNest" /\ phase = "raised" /\ Cardinality(caught) = 2
    /\ \E u \in Workers : Done(u) /\ u \notin caught

\* C6: the four realizations apply the same update to the same tiles: each
\* local tile C(i, j), i >= j, receives alpha A(i) B(j)^T + alpha B(i) A(j)^T
\* + beta C(i, j) exactly once (beta once, the second product accumulated
\* with factor 1) and no other tile of C is modified: at any time a tile
\* holds a prefix of that update, and all of it when the call returns.
C6_Update(t) ==
    IF t[1] = t[2]
    THEN <<Term("syr2k", "A", t[1], "NoTrans", "B", t[1], "NoTrans", "beta")>>
    ELSE <<Term("gemm", "A", t[1], "NoTrans", "B", t[2], "Trans", "beta"),
           Term("gemm", "B", t[1], "NoTrans", "A", t[2], "Trans", "one")>>

C7_HostTaskUnits ==
    target = "HostTask" =>
        /\ {u \in Workers : Spawned(u)} =
              IF pc[Main] > 1
              THEN {Diag(t[1]) : t \in {x \in LocalLower : x[1] = x[2]}}
                   \cup {Off(t[1], t[2]) : t \in {x \in LocalLower : x[1] > x[2]}}
              ELSE {}
        /\ \A u \in Workers : Done(u) /\ u \notin caught =>
              LET i == u[2]
                  j == u[3]
              IN  IF i = j
                  THEN /\ Events(u, {"syr2k", "gemm"}) = <<Ev("syr2k", "C", j, j, Host)>>
                       /\ Cval[<<j, j>>] =
                            <<Term("syr2k", "A", j, "NoTrans", "B", j, "NoTrans", "beta")>>
                  ELSE /\ Events(u, {"syr2k", "gemm"}) =
                            <<Ev("gemm", "C", i, j, Host), Ev("gemm", "C", i, j, Host)>>
                       /\ Cval[<<i, j>>] =
                            <<Term("gemm", "A", i, "NoTrans", "B", j, "Trans", "beta"),
                              Term("gemm", "B", i, "NoTrans", "A", j, "Trans", "one")>>

C7_Witness ==
    /\ target = "HostTask" /\ phase = "returned" /\ C_nt = MaxNt
    /\ tileIsLocal(1, 0) /\ tileIsLocal(0, 0) /\ ~tileIsLocal(1, 1)

C9_SyncOrder ==
    \A u \in DOMAIN trace : u[1] \in {"dev", "single"} =>
        LET tr == trace[u]
            At(es) == {k \in DOMAIN tr : tr[k].e \in es}
        IN  /\ Cardinality(At({"sync"})) <= 1
            /\ \A k \in At({"enqueue"}) : \A s \in At({"sync"}) : k < s
            /\ \A k \in At({"release", "tick"}) : \E s \in At({"sync"}) : s < k
            /\ Done(u) /\ u \notin caught => Cardinality(At({"sync"})) = 1
            /\ At({"sync"}) # {} =>
                  \A k \in pc[u] .. Len(prog[u]) : prog[u][k].op \notin {"enqueue", "sync"}

C9_Witness ==
    /\ target = "Devices" /\ C_nt = MaxNt /\ LocalLower = Lower(C_nt)
    /\ Done(Dev(0)) /\ Dev(0) \notin caught
    /\ Len(Events(Dev(0), {"enqueue"})) = 4

\* C10: without the batched host back-end, selecting HostBatch fails for
\* every input and at once: before any diagonal task is spawned and before
\* any tile is acquired.
C10_FailsAtOnce ==
    target = "HostBatch" /\ ~SLATE_WITH_MKL /\ ~rejected /\ phase # "entry" =>
        /\ phase # "returned"
        /\ \A u \in Workers : ~Spawned(u)
        /\ \A u \in DOMAIN trace : trace[u] = <<>>

\* ------------------------------------------------------------------
\* the batched calls issued for device d (Host: by the dispatching thread)
CallsOf(d) == SelectSeq(calls, LAMBDA c : c.dev = d)
CallsOfGroup(d, kind, g, o) ==
    SelectSeq(calls, LAMBDA c : c.dev = d /\ c.kind = kind /\ c.group = g /\ c.orient = o)
SeqSet(q) == {q[k] : k \in 1 .. Len(q)}
StrictlyLowerLocal == {t \in LocalLower : t[1] > t[2]}

\* C11: with the back-end available, HostBatch issues no batched call when
\* no strictly-lower tile of C is local, and otherwise exactly two batched
\* gemm calls, in order, over the same C pointer array, which lists every
\* local strictly-lower tile once (batch_count entries): the first with
\* beta for every entry, the second with 1 for every entry.
C11_TwoGemmBatches ==
    target = "HostBatch" /\ SLATE_WITH_MKL =>
        LET n == Cardinality(StrictlyLowerLocal)
        IN  /\ batch_count = n
            /\ Len(calls) <= 2
            /\ n = 0 => calls = <<>>
            /\ phase = "returned" /\ n > 0 => Len(calls) = 2
            /\ \A q \in DOMAIN calls :
                  /\ calls[q].kind = "gemm" /\ calls[q].count = n
                  /\ Len(calls[q].c) = n /\ SeqSet(calls[q].c) = StrictlyLowerLocal
                  /\ calls[q].c = calls[1].c
                  /\ Len(calls[q].beta) = n
                  /\ \A k \in 1 .. n : calls[q].beta[k] = IF q = 1 THEN "beta" ELSE "one"

C11_Witness ==
    /\ target = "HostBatch" /\ phase = "returned" /\ Len(calls) = 2
    /\ calls[2].count = 3 /\ C_op = "Trans"

\* C12: in Devices with mt = nt >= 2, for every device d, every strictly-
\* lower tile local on d is in exactly one of the groups interior (i < mt-1)
\* and bottom row (i = mt-1), every diagonal tile local on d in exactly one
\* of the groups diagonal (j < nt-1) and corner, the sizes add up to the
\* sizes of C_tiles_gemm and C_tiles_syr2k, and in every batched call the
\* A, B and C pointer arrays list the tiles in the same order: entry k is
\* A(i), B(j), C(i, j) in the first orientation and A(j), B(i), C(i, j) in
\* the second.
C12_OnDevice(d) == {t \in Lower(C_nt) : tileIsLocal(t[1], t[2]) /\ tileDevice(t[1], t[2]) = d}
C12_Once(t, g1, g2) ==
    Cardinality({k \in DOMAIN g1 : g1[k] = t}) + Cardinality({k \in DOMAIN g2 : g2[k] = t}) = 1
C12_Groups ==
    target = "Devices" /\ C_nt >= 2 =>
        \A d \in 0 .. num_devices - 1 :
            /\ \A t \in C12_OnDevice(d) :
                  IF t[1] > t[2]
                  THEN /\ C12_Once(t, Interior(d), BottomRow(d))
                       /\ t \in SeqSet(Interior(d)) <=> t[1] < C_mt - 1
                  ELSE /\ C12_Once(t, Diagonal(d), Corner(d))
                       /\ t \in SeqSet(Diagonal(d)) <=> t[2] < C_nt - 1
            /\ Len(Interior(d)) + Len(BottomRow(d)) = Len(C_tiles_gemm(d))
            /\ Len(Diagonal(d)) + Len(Corner(d)) = Len(C_tiles_syr2k(d))
            /\ SeqSet(C_tiles_gemm(d)) \cup SeqSet(C_tiles_syr2k(d)) = C12_OnDevice(d)
            /\ \A q \in DOMAIN calls : calls[q].dev = d =>
                  LET c == calls[q]
                      group == CASE c.kind = "gemm" /\ c.group = "00" -> Interior(d)
                                 [] c.kind = "gemm" /\ c.group = "10" -> BottomRow(d)
                                 [] c.kind = "syr2k" /\ c.group = "0" -> Diagonal(d)
                                 [] OTHER -> Corner(d)
                  IN  /\ c.c = group
                      /\ Len(c.X) = Len(c.c) /\ Len(c.Y) = Len(c.c)
                      /\ \A k \in 1 .. Len(c.c) :
                            {c.X[k], c.Y[k]} =
                                IF c.orient = 1 /\ c.kind = "gemm"
                                THEN {<<"A", c.c[k][1]>>, <<"B", c.c[k][2]>>}
                                ELSE {<<"A", c.c[k][2]>>, <<"B", c.c[k][1]>>}

C12_Witness ==
    /\ target = "Devices" /\ C_nt = 3 /\ phase = "returned"
    /\ Len(Interior(0)) = 1 /\ Len(BottomRow(0)) = 1 /\ Len(BottomRow(1)) = 1
    /\ Len(Diagonal(1)) = 2 /\ Len(Corner(0)) = 1
    /\ Len(CallsOf(0)) = 5 /\ Len(CallsOf(1)) = 3

\* C13: per device, the general path of Devices issues a batched call for
\* a group only when the group is not empty, and then exactly one per
\* orientation: twice as many batched gemm calls as there are non-empty
\* groups among interior and bottom row, one batched syr2k call per non-empty
\* group among diagonal and corner; no batched call has batch size zero.
C13_Size(d, kind, g) ==
    Cardinality({t \in C12_OnDevice(d) :
        CASE kind = "gemm" /\ g = "00" -> t[1] > t[2] /\ t[1] < C_mt - 1
          [] kind = "gemm" /\ g = "10" -> t[1] > t[2] /\ t[1] = C_mt - 1
          [] kind = "syr2k" /\ g = "0" -> t[1] = t[2] /\ t[2] < C_nt - 1
          [] OTHER -> t[1] = t[2] /\ t[2] = C_nt - 1})
C13_Expected(d, kind) ==
    LET gs == IF kind = "gemm" THEN {"00", "10"} ELSE {"0", "1"}
    IN  Cardinality({g \in gs : C13_Size(d, kind, g) > 0}) * (IF kind = "gemm" THEN 2 ELSE 1)
C13_CallsPerGroup ==
    target = "Devices" /\ C_nt # 1 =>
        /\ \A q \in DOMAIN calls :
              /\ calls[q].count > 0
              /\ calls[q].count = C13_Size(calls[q].dev, calls[q].kind, calls[q].group)
        /\ \A d \in 0 .. num_devices - 1 :
              /\ \A g \in {"00", "10"}, o \in {1, 2} :
                    /\ Len(CallsOfGroup(d, "gemm", g, o)) <= 1
                    /\ Done(Dev(d)) /\ C13_Size(d, "gemm", g) > 0 =>
                            Len(CallsOfGroup(d, "gemm", g, o)) = 1
              /\ \A g \in {"0", "1"} :
                    /\ Len(CallsOfGroup(d, "syr2k", g, 1)) <= 1
                    /\ CallsOfGroup(d, "syr2k", g, 2) = <<>>
                    /\ Done(Dev(d)) /\ C13_Size(d, "syr2k", g) > 0 =>
                            Len(CallsOfGroup(d, "syr2k", g, 1)) = 1
              /\ Done(Dev(d)) =>
                    /\ Len(SelectSeq(CallsOf(d), LAMBDA c : c.kind = "gemm"))
                            = C13_Expected(d, "gemm")
                    /\ Len(SelectSeq(CallsOf(d), LAMBDA c : c.kind = "syr2k"))
                            = C13_Expected(d, "syr2k")

C13_Witness ==
    /\ target = "Devices" /\ C_nt = 3 /\ phase = "returned"
    /\ Len(SelectSeq(CallsOf(0), LAMBDA c : c.kind = "gemm")) = 4
    /\ Len(SelectSeq(CallsOf(0), LAMBDA c : c.kind = "syr2k")) = 1
    /\ Len(CallsOf(1)) = 1

\* C14: every tile placed in a batch group of Devices has the parameters
\* passed once for the whole group: the stored C tile is m x n, the stored
\* operand tiles are what opA, opB, m, n and the inner dimension k say, and
\* the leading dimension of each tile is the single one passed for its array.
C14_Operand(x, op, r, c, ld, strides) ==
    /\ IF op = "NoTrans" THEN DataRows(x) = r /\ DataCols(x) = c
        ELSE DataRows(x) = c /\ DataCols(x) = r
    /\ strides => stride(x) = ld
C14_Entry(c, k, strides) ==
    /\ DataRows(CTile(c.c[k])) = c.m /\ DataCols(CTile(c.c[k])) = c.n
    /\ strides => stride(CTile(c.c[k])) = c.ldc
    /\ C14_Operand(TileOf(c.X[k]), c.opA, c.m, c.k, c.ldx, strides)
    /\ IF c.kind = "gemm"
       THEN C14_Operand(TileOf(c.Y[k]), c.opB, c.k, c.n, c.ldy, strides)
       ELSE C14_Operand(TileOf(c.Y[k]), c.opB, c.n, c.k, c.ldy, strides)
C14_GroupParameters ==
    \A q \in DOMAIN calls : calls[q].dev # Host /\ calls[q].group # "single" =>
        \A k \in 1 .. calls[q].count : C14_Entry(calls[q], k, TRUE)

C14_Witness ==
    \E q \in DOMAIN calls :
        /\ calls[q].dev # Host /\ calls[q].group = "10" /\ calls[q].count = 2
        /\ cfg.padded = {<<"C", 2, 0>>} /\ calls[q].ldc # stride(<<"C", 2, 0>>)

\* C15: when the operator of C is not NoTrans, the batched gemm calls of
\* HostBatch and Devices take the B tiles where they would take the A tiles
\* and the A tiles where they would take the B tiles, each array with the
\* leading dimensions of its own tiles, opB for opA and opA for opB, and n
\* for m and m for n, in both orientations (the operators and m, n are the
\* same in the two orientations); when it is NoTrans nothing is exchanged.
C15_Call(c) ==
    LET sw == C_op # "NoTrans"
        host == c.dev = Host
        baseA == IF host THEN HostBatch_opA ELSE Devices_opA
        baseB == IF host THEN HostBatch_opB ELSE Devices_opB
    IN  /\ c.opA = IF sw THEN baseB ELSE baseA
        /\ c.opB = IF sw THEN baseA ELSE baseB
        /\ \A k \in 1 .. c.count :
              LET i == c.c[k][1]
                  j == c.c[k][2]
                  first == IF c.orient = 1 THEN <<"A", i>> ELSE <<"B", i>>
                  second == IF c.orient = 1 THEN <<"B", j>> ELSE <<"A", j>>
                  m == IF host THEN c.m[k] ELSE c.m
                  n == IF host THEN c.n[k] ELSE c.n
                  ldx == IF host THEN c.ldx[k] ELSE c.ldx
                  ldy == IF host THEN c.ldy[k] ELSE c.ldy
                  own == IF host THEN k ELSE c.count
              IN  /\ c.X[k] = IF sw THEN second ELSE first
                  /\ c.Y[k] = IF sw THEN first ELSE second
                  /\ m = IF sw THEN nb(CTile(c.c[k])) ELSE mb(CTile(c.c[k]))
                  /\ n = IF sw THEN mb(CTile(c.c[k])) ELSE nb(CTile(c.c[k]))
                  /\ ldx = stride(TileOf(c.X[own]))
                  /\ ldy = stride(TileOf(c.Y[own]))
C15_SwapForTransposedC ==
    /\ \A q \in DOMAIN calls : calls[q].kind = "gemm" => C15_Call(calls[q])
    /\ \A p, q \in DOMAIN calls :
          /\ calls[p].kind = "gemm" /\ calls[q].kind = "gemm"
          /\ calls[p].dev = calls[q].dev /\ calls[p].group = calls[q].group
          => /\ calls[p].opA = calls[q].opA /\ calls[p].opB = calls[q].opB
             /\ calls[p].m = calls[q].m /\ calls[p].n = calls[q].n

C15_Witness ==
    /\ C_op = "Trans" /\ phase = "returned"
    /\ \E q \in DOMAIN calls :
          /\ calls[q].kind = "gemm" /\ calls[q].dev = 0 /\ calls[q].orient = 2
          /\ calls[q].count = 2 /\ calls[q].m # calls[q].n /\ calls[q].ldx # calls[q].ldy
          /\ calls[q].opA # calls[q].opB
\* C16: within one call on Target::Devices no compute queue is enqueued to
\* or synchronized by two units: the queue of device d is used by the task
\* of device d alone (by the single-tile task when C has one tile), and
\* when the call returns every device task has used its own queue.
QueueUsers(d) ==
    {u \in DOMAIN trace :
        \E k \in DOMAIN trace[u] :
            trace[u][k].e \in {"enqueue", "sync"} /\ trace[u][k].d = d}
C16_QueueOwner ==
    target = "Devices" =>
        /\ \A d \in DOMAIN queue :
              /\ Cardinality(QueueUsers(d)) <= 1
              /\ QueueUsers(d) \subseteq
                    (IF C_nt = 1 THEN {u \in {Single} : tileDevice(0, 0) = d} ELSE {Dev(d)})
        /\ phase = "returned" /\ C_nt >= 2 =>
              \A d \in DOMAIN queue : QueueUsers(d) = {Dev(d)}

\* two device tasks are running at once, each with a call on its queue
C16_Witness ==
    /\ target = "Devices" /\ num_devices = 2 /\ C_nt = 2
    /\ Live(Dev(0)) /\ Live(Dev(1))
    /\ queue[0] # <<>> /\ queue[1] # <<>>
    /\ QueueUsers(0) = {Dev(0)} /\ QueueUsers(1) = {Dev(1)}

\* C17: when a tile acquisition fails inside a unit, the unit makes no
\* further acquisition (no retry) and invokes no kernel afterwards, the
\* process goes on so that the other units can run to completion, and the
\* call raises, after every unit is over.
Failed(u) == Events(u, {"throw"}) # <<>>
C17_AcquisitionFailure ==
    \A u \in Workers : Failed(u) =>
        /\ trace[u][Len(trace[u])].e = "throw"
        /\ Len(Events(u, {"throw"})) = 1
        /\ phase \notin {"aborted", "returned"}
        /\ phase = "raised" => \A v \in Workers : Done(v)

\* the part of C17 that the host task realizations satisfy
C17_HostTasks == target \in {"HostTask", "HostNest"} => C17_AcquisitionFailure

C17_HostTasks_Witness ==
    /\ target = "HostTask" /\ phase = "raised" /\ C_nt = MaxNt
    /\ \E u \in Workers : Failed(u) /\ u[1] = "off"
    /\ \E v \in Workers : ~Failed(v) /\ Events(v, {"gemm", "syr2k"}) # <<>>

\* C18: a call of henorm with batch_count = 0 does nothing, whatever the
\* norm, the triangle and n: it returns without selecting a device,
\* launching a kernel, issuing a memset, writing an element of the output
\* or asking the device for its last error.
C18_EmptyBatchNoOp ==
    (hn.at # "idle" /\ hn.batch_count = 0) =>
        /\ hn.at \in {"entry", "returned"}
        /\ ~hn.device
        /\ hn.launches = <<>> /\ hn.memsets = <<>> /\ hn.stream = <<>>
        /\ hn.writes = {} /\ hn.reads = {}
        /\ \A s \in DOMAIN hn.values : hn.values[s] = "unset"
        /\ ~hn.checked

\* the call has returned although the device has an error to report
C18_Witness ==
    /\ hn.at = "returned" /\ hn.batch_count = 0
    /\ hn.error /\ hn.n = HnMaxN /\ hn.norm = "Fro"

\* the host function is over and the device has completed its stream
HnOver == hn.at \in {"returned", "fatal"} /\ hn.stream = <<>>

\* C19: a call of henorm with batch_count >= 1 and n = 0, for Max, One, Inf
\* and Fro, launches no kernel; it issues one memset of the output:
\* batch_count values for Max, 2 * batch_count for Fro, batch_count * n = 0
\* for One and Inf, after which the result of every tile is zero.
C19_ZeroSizeMemset ==
    (hn.at # "idle" /\ hn.batch_count >= 1 /\ hn.n = 0
        /\ hn.norm \in {"Max", "One", "Inf", "Fro"}) =>
        LET per == CASE hn.norm = "Max" -> 1 [] hn.norm = "Fro" -> 2 [] OTHER -> 0
        IN  /\ hn.launches = <<>> /\ hn.reads = {} /\ hn.writes = {}
            /\ hn.memsets \in {<<>>, <<per * hn.batch_count>>}
            /\ hn.at \in {"check", "returned", "fatal"} =>
                  hn.memsets = <<per * hn.batch_count>>
            /\ HnOver =>
                  \A s \in DOMAIN hn.values :
                      hn.values[s] = IF s < per * hn.batch_count THEN "zero" ELSE "unset"

C19_Witness ==
    /\ HnOver /\ hn.at = "returned" /\ hn.n = 0 /\ hn.norm = "Fro"
    /\ hn.batch_count = HnMaxBatch /\ hn.memsets = <<2 * HnMaxBatch>>
    /\ hn.values[2 * HnMaxBatch - 1] = "zero"

\* the elements of values that belong to tile k
C20_Slots(k) ==
    CASE hn.norm = "Max" -> {k}
      [] hn.norm = "Fro" -> {2 * k, 2 * k + 1}
      [] OTHER -> {k * hn.ldv + c : c \in 0 .. hn.n - 1}

\* C20: a call of henorm with batch_count >= 1 and n >= 1, for Max, One,
\* Inf and Fro, launches exactly one kernel, with batch_count work-groups;
\* work-group k reads tile Aarray[k] only and writes the output elements of
\* tile k only; One and Inf launch the same kernel; no memset is issued.
C20_OneLaunch ==
    (hn.at # "idle" /\ hn.batch_count >= 1 /\ hn.n >= 1
        /\ hn.norm \in {"Max", "One", "Inf", "Fro"}) =>
        /\ hn.memsets = <<>>
        /\ Len(hn.launches) <= 1
        /\ hn.at \in {"check", "returned", "fatal"} => Len(hn.launches) = 1
        /\ \A q \in DOMAIN hn.launches :
              /\ hn.launches[q].grid = hn.batch_count
              /\ hn.launches[q].kernel =
                    (CASE hn.norm = "Max" -> "henorm_max_kernel"
                       [] hn.norm = "Fro" -> "henorm_fro_kernel"
                       [] OTHER -> "henorm_one_kernel")
        /\ \A r \in hn.reads : r[1] \in 0 .. hn.batch_count - 1 /\ r[2] = hn.Aarray[r[1]]
        /\ \A w \in hn.writes : w[1] \in 0 .. hn.batch_count - 1 /\ w[2] \in C20_Slots(w[1])
        /\ HnOver =>
              /\ \A k \in 0 .. hn.batch_count - 1 :
                    /\ \E r \in hn.reads : r[1] = k
                    /\ \A sl \in C20_Slots(k) : <<k, sl>> \in hn.writes
              /\ \A sl \in DOMAIN hn.values :
                    hn.values[sl] # "unset" <=>
                        \E k \in 0 .. hn.batch_count - 1 : sl \in C20_Slots(k)

C20_Witness ==
    /\ HnOver /\ hn.at = "returned" /\ hn.norm = "Inf" /\ hn.n = HnMaxN
    /\ hn.batch_count = HnMaxBatch /\ hn.Aarray[0] # 0 /\ hn.ldv > hn.n
    /\ Len(hn.launches) = 1 /\ Cardinality(hn.writes) = HnMaxBatch * HnMaxN

\* --- the kernels of henorm
KnDone == hn.at = "kernel" /\ \A t \in DOMAIN hn.th : hn.th[t].pc = "done"
KnElems == DOMAIN hn.reads
KnTriangle == {e \in KnElems : KnInTriangle(hn.uplo, e)}
KnNans == {e \in KnTriangle : IsNan(hn.tile[e])}
\* |S(i, j)|, S the symmetric completion of the declared triangle
KnSym(e) == LET d == IF e \in KnTriangle THEN e ELSE <<e[2], e[1]>> IN Abs(hn.tile[d])[1]
RECURSIVE KnTotal(_, _, _)
\* the sum of f(e) over the elements e of S
KnTotal(S, f(_), acc) ==
    IF S = {} THEN acc
    ELSE LET e == CHOOSE x \in S : TRUE IN KnTotal(S \ {e}, f, acc + f(e))

\* C21: the Max and the Frobenius kernel read every element of the
\* declared triangle (diagonal included) exactly once and the One kernel
\* reads elements of the declared triangle only; no kernel reads an
\* element of the other triangle.
C21_ReadsDeclaredTriangle ==
    hn.at = "kernel" =>
        /\ \A e \in KnElems \ KnTriangle : hn.reads[e] = 0
        /\ hn.kernel # "henorm_one_kernel" => \A e \in KnTriangle : hn.reads[e] <= 1
        /\ KnDone =>
              \A e \in KnTriangle :
                  IF hn.kernel = "henorm_one_kernel" THEN hn.reads[e] >= 1
                  ELSE hn.reads[e] = 1

\* the other triangle is full of NaN and the result is a number
C21_Witness ==
    /\ KnDone /\ hn.kernel = "henorm_fro_kernel" /\ hn.uplo = "Lower"
    /\ hn.n = KnMaxN /\ hn.dim = 2
    /\ IsNan(hn.tile[<<0, hn.n - 1>>]) /\ KnNans = {}
    /\ ~IsNan(hn.out[0].scale) /\ hn.out[0].sumsq = Num(3)

C23_MaxValue ==
    (KnDone /\ hn.kernel = "henorm_max_kernel" /\ KnNans = {}) =>
        /\ hn.wrote = {0}
        /\ \A e \in KnTriangle : Abs(hn.tile[e])[1] <= hn.out[0].scale[1]
        /\ \/ \E e \in KnTriangle : Abs(hn.tile[e]) = hn.out[0].scale
           \/ KnTriangle = {}
        /\ (\A e \in KnTriangle : hn.tile[e] = Num(0)) => hn.out[0].scale = Num(0)

\* the largest value is in the second row of thread 0; the imaginary
\* parts of the diagonal and the other triangle are NaN
C23_Witness ==
    /\ KnDone /\ hn.kernel = "henorm_max_kernel" /\ hn.n = 3 /\ hn.dim = 2
    /\ hn.uplo = "Upper" /\ KnNans = {} /\ IsNan(hn.im) /\ IsNan(hn.tile[<<2, 0>>])
    /\ {e \in KnTriangle : hn.tile[e] # Num(0)} = {<<2, 2>>}
    /\ hn.out[0].scale = Num(1)

C25_SumOfSquares ==
    (KnDone /\ hn.kernel = "henorm_fro_kernel" /\ KnNans = {}) =>
        /\ hn.wrote = {0, 1}
        /\ ~IsNan(hn.out[0].scale) /\ ~IsNan(hn.out[0].sumsq)
        /\ hn.out[0].scale[1] * hn.out[0].scale[1] * hn.out[0].sumsq[1] =
              KnTotal(KnElems, LAMBDA e : KnSym(e) * KnSym(e), 0)
        /\ hn.out[0].scale[1] * hn.out[0].scale[1] * hn.out[0].sumsq[1] =
              KnTotal(KnTriangle,
                      LAMBDA e : (IF e[1] = e[2] THEN 1 ELSE 2)
                                 * Abs(hn.tile[e])[1] * Abs(hn.tile[e])[1], 0)

C25_Witness ==
    /\ KnDone /\ hn.kernel = "henorm_fro_kernel" /\ hn.n = 3 /\ hn.dim = 2
    /\ hn.uplo = "Upper" /\ KnNans = {} /\ IsNan(hn.im) /\ IsNan(hn.tile[<<2, 0>>])
    /\ \A e \in KnTriangle : hn.tile[e] # Num(0)
    /\ hn.out[0] = [scale |-> Num(1), sumsq |-> Num(9)]

HostTargets == {"HostTask", "HostNest", "HostBatch"}
Operands(st) ==
    {<<st.upds[k].term.x, st.upds[k].term.xi>> : k \in DOMAIN st.upds}
        \cup {<<st.upds[k].term.y, st.upds[k].term.yi>> : k \in DOMAIN st.upds}
Outputs(st) == {st.upds[k].tile : k \in DOMAIN st.upds}
AcquiredR(u) == {<<trace[u][k].m, trace[u][k].i>> : k \in {n \in DOMAIN trace[u] : trace[u][n].e = "getR"}}
AcquiredW(u) == {<<trace[u][k].i, trace[u][k].j>> : k \in {n \in DOMAIN trace[u] : trace[u][n].e = "getW"}}
Uses(u) ==
    /\ phase \notin {"entry", "aborted"}
    /\ Live(u)
    /\ Cur(u).op \in {"kernel", "batch"}

\* C27: in every host realization, each tile of A, B and C that a unit is
\* about to pass to a kernel or to a batched call has been acquired before
\* by that unit (for HostBatch: by the pre-load loop of the same thread).
C27_AcquiredBeforeUse ==
    target \in HostTargets =>
        \A u \in DOMAIN pc : Uses(u) =>
            /\ Operands(Cur(u)) \subseteq AcquiredR(u)
            /\ Outputs(Cur(u)) \subseteq AcquiredW(u)

\* C27 in HostTask alone, where each task acquires the five tiles it uses
C27_HostTask == target = "HostTask" => C27_AcquiredBeforeUse
C27_HostTask_Witness ==
    /\ target = "HostTask"
    /\ \E u \in DOMAIN pc : u[1] = "off" /\ Uses(u) /\ Events(u, {"gemm"}) # <<>>


\* the acquisitions for reading made by a unit (those of the nested tasks of
\* a device task are made on its behalf), and its tileTick calls
Nested(u) == IF u[1] = "dev" THEN {v \in DOMAIN pc : v[1] = "acq" /\ v[2] = u[2]} ELSE {}
CountR(u, m, i) ==
    LET Of(v) == Cardinality({k \in DOMAIN trace[v] :
                     trace[v][k].e = "getR" /\ trace[v][k].m = m /\ trace[v][k].i = i})
        RECURSIVE Sum(_)
        Sum(S) == IF S = {} THEN 0
                  ELSE LET v == CHOOSE w \in S : TRUE IN Of(v) + Sum(S \ {v})
    IN  Sum({u} \cup Nested(u))
CountTick(u, m, i) ==
    Cardinality({k \in DOMAIN trace[u] :
        trace[u][k].e = "tick" /\ trace[u][k].m = m /\ trace[u][k].i = i})
Completed(u) == Done(u) /\ u \notin caught /\ phase \notin {"aborted", "raised"}
Rows == {"A", "B"} \X (0 .. MaxNt - 1)

\* C28: a unit that completes without error has ticked exactly the tiles of
\* A and B it acquired for reading, once per acquisition and after its last
\* kernel or batched call, and has ticked no tile of C.
C28_TicksMatchAcquisitions ==
    \A u \in DOMAIN pc : u[1] # "acq" /\ Completed(u) =>
        LET tr == trace[u]
            At(es) == {k \in DOMAIN tr : tr[k].e \in es}
        IN  /\ \A r \in Rows : CountTick(u, r[1], r[2]) = CountR(u, r[1], r[2])
            /\ \A k \in At({"tick"}) : tr[k].m # "C"
            /\ \A k \in At({"tick"}) :
                   \A c \in At({"gemm", "syr2k", "batch", "enqueue"}) : c < k

\* C28 in HostTask alone, where each task ticks the tiles it acquired
C28_HostTask == target = "HostTask" => C28_TicksMatchAcquisitions
C28_HostTask_Witness ==
    /\ target = "HostTask"
    /\ \E u \in DOMAIN pc : u[1] = "off" /\ Completed(u) /\ Len(Events(u, {"tick"})) = 4


\* a unit has left its body: by its end, through its handler, or by an
\* exception that no handler of the task took
Exited(u) == Done(u) \/ u \in escaped
CountRelease(u, m, i) ==
    Cardinality({k \in DOMAIN trace[u] :
        trace[u][k].e = "release" /\ trace[u][k].m = m /\ trace[u][k].i = i})

\* C29: on every exit path of a unit, a failed acquisition or kernel
\* included, each tile the unit had acquired for reading has had its life
\* decremented, and the device copy of it has been released.
C29_ReleasedOnEveryExit ==
    \A u \in DOMAIN pc : u[1] # "acq" /\ Exited(u) =>
        \A r \in Rows :
            /\ CountTick(u, r[1], r[2]) >= CountR(u, r[1], r[2])
            /\ u[1] \in {"single", "dev"} /\ CountR(u, r[1], r[2]) > 0
                   => CountRelease(u, r[1], r[2]) > 0

\* C29 on the paths without an error, where the ticks are reached
C29_NoError ==
    (\A u \in DOMAIN pc : ~Failed(u)) /\ caught = {} /\ phase \notin {"aborted", "raised"}
        => C29_ReleasedOnEveryExit
C29_NoError_Witness ==
    /\ target = "Devices" /\ C_nt = MaxNt
    /\ Completed(Dev(0)) /\ Events(Dev(0), {"tick"}) # <<>>


\* the devices that hold no local tile of the lower triangle of C, and what
\* the task of a device and its nested tasks have done
IdleDevices ==
    {d \in 0 .. num_devices - 1 :
        \A t \in Lower(C_nt) : ~(tileIsLocal(t[1], t[2]) /\ tileDevice(t[1], t[2]) = d)}
TasksOf(d) == {u \in DOMAIN pc : u[1] \in {"dev", "acq"} /\ u[2] = d}
Work == {"getR", "getW", "enqueue", "release", "tick", "throw"}

KnOwnSlots == {hn.block * hn.ldv + j : j \in 0 .. hn.n - 1}

\* C31: with ldv >= n the One/Inf kernel writes each element
\* values[k*ldv + j], j < n, of its tile exactly once, by one thread, and
\* no other element; the elements of a tile lie inside the tile's own
\* stretch of ldv elements, so that different tiles never overlap.
C31_OneWritePerSlot ==
    (hn.at = "kernel" /\ hn.kernel = "henorm_one_kernel" /\ hn.ldv >= hn.n) =>
        /\ \A sl \in DOMAIN hn.writes :
              /\ Len(hn.writes[sl]) <= 1
              /\ hn.writes[sl] # <<>> => sl \in KnOwnSlots
        /\ \A sl \in KnOwnSlots :
              /\ sl \in DOMAIN hn.writes
              /\ hn.block * hn.ldv <= sl /\ sl < (hn.block + 1) * hn.ldv
              /\ KnDone => Len(hn.writes[sl]) = 1
        /\ \A b \in 0 .. KnBlocks - 1 :
              b # hn.block => KnOwnSlots \cap {b * hn.ldv + j : j \in 0 .. hn.n - 1} = {}

\* more columns than threads: thread 0 writes two elements of the second tile
C31_Witness ==
    /\ KnDone /\ hn.kernel = "henorm_one_kernel"
    /\ hn.n = KnMaxN /\ hn.dim = 2 /\ hn.block = 1 /\ hn.ldv = hn.n + 1
    /\ hn.writes[hn.ldv] = <<0>> /\ hn.writes[hn.ldv + 1] = <<1>>
    /\ hn.writes[hn.ldv + 2] = <<0>>


\* the number of tileTick calls on tile (r, 0) of matrix m that the tasks of
\* HostTask issue for the local tiles of C
HostTaskTicks(m, r) ==
    LET P(t) == IF t[1] = t[2] THEN DiagProg(t[2]) ELSE HostTaskOffProg(t[1], t[2])
    IN  Cardinality({x \in LocalLower \X (1 .. 4) \X (1 .. 4) :
            /\ x[2] \in DOMAIN P(x[1])
            /\ P(x[1])[x[2]].op = "tick"
            /\ x[3] \in DOMAIN P(x[1])[x[2]].items
            /\ P(x[1])[x[2]].items[x[3]].m = m
            /\ P(x[1])[x[2]].items[x[3]].i = r})

\* C32: after a successful call every tile of A and B has had its life
\* decremented as often as HostTask decrements it for the same grid and
\* ownership of C, whichever realization ran.
C32_SameTicks ==
    phase = "returned" =>
        \A x \in DOMAIN ticks : ticks[x] = HostTaskTicks(x[1], x[2])

\* C32 among the three host realizations
C32_Host == target \in HostTargets => C32_SameTicks
C32_Host_Witness ==
    /\ target = "HostBatch" /\ phase = "returned" /\ C_nt = MaxNt
    /\ LocalLower = Lower(C_nt) /\ ticks[<<"A", 0>>] = 2


C33_BarrierReached ==
    (hn.at = "kernel" /\ \E t \in DOMAIN hn.th : hn.th[t].pc = "barrier") =>
        \A t \in DOMAIN hn.th : hn.th[t].pc \in {"loop", "barrier", "done"}

C33_Witness_Idle ==
    /\ KnDone /\ hn.kernel = "henorm_fro_kernel" /\ hn.n = 1 /\ hn.dim = 2
    /\ hn.th[1].i = 1 /\ hn.set = {0}


\* the entries of the shared arrays that the final reduction reads: all
\* blockDim.x entries of row_max; row_scale / row_sumsq [0] and the
\* entries [chunk] of the loop of thread 0
KnReduced ==
    IF hn.kernel = "henorm_max_kernel" THEN DOMAIN hn.row
    ELSE {0} \cup {c \in 1 .. hn.dim - 1 : \A b \in 1 .. c : KnFroMore(b)}
\* the reduction is the next step
KnReducing ==
    /\ hn.at = "kernel"
    /\ \/ hn.kernel = "henorm_max_kernel" /\ \A t \in DOMAIN hn.th : hn.th[t].pc = "sync"
       \/ hn.kernel = "henorm_fro_kernel" /\ hn.th[0].pc = "tail"
\* thread c, the only writer of entry c (chunk = i % blockDim.x), has
\* written it and writes it no more
KnSettled(c) ==
    /\ c \in hn.set
    /\ hn.th[c].i >= hn.n
    /\ hn.th[c].pc \in {"loop", "sync", "tail", "done"}

\* C34: in the Max and the Frobenius kernel every entry of the shared
\* arrays that the final reduction reads has been initialised and written
\* for the last time by its thread before the reduction starts.
C34_ReductionReadsSettled ==
    KnReducing => \A c \in KnReduced : KnSettled(c)

\* fewer rows than threads, and more rows than threads
C34_Witness ==
    /\ KnReducing /\ hn.kernel = "henorm_fro_kernel" /\ hn.dim = 2 /\ hn.n = 3
    /\ KnReduced = {0, 1} /\ hn.th[1].pc = "done"
C34_Witness_Max ==
    /\ KnReducing /\ hn.kernel = "henorm_max_kernel" /\ hn.dim = 2 /\ hn.n = 1
    /\ KnReduced = {0, 1}


\* the call has passed the check of syr2k<target, scalar_t>
Accepted == phase \in {"running", "raised", "returned", "aborted"} /\ ~rejected

\* C36: in a call that has passed the entry check, op(C) # NoTrans and
\* op(A) # NoTrans imply op(A) = op(C) or C real, so that the computation
\* of opA in HostBatch and in Devices never throws.
C36_NormalizationTotal ==
    Accepted =>
        /\ (C_op # "NoTrans" /\ A_op # "NoTrans") => (A_op = C_op \/ is_real)
        /\ HostBatch_opA # "throw"
        /\ Devices_opA # "throw"

\* real matrices with op(C) = Trans and op(A) = ConjTrans: the device task
\* has computed opA and gone on
C36_Witness ==
    /\ Accepted /\ target = "Devices" /\ C_nt = MaxNt
    /\ is_real /\ C_op = "Trans" /\ A_op = "ConjTrans"
    /\ pc[Dev(0)] > 1 /\ Dev(0) \notin caught


\* the indices with which a device task queries C: the rows of C.tileMb,
\* the columns of C.tileNb, and the tiles of C.tileIsLocal / C.tileDevice
\* (the loops over the lower triangle and the bottom-right corner)
DevRowQueries == {0, C_mt - 1}
DevColQueries == {0, C_nt - 1}
DevTileQueries == Lower(C_nt) \cup {<<C_mt - 1, C_nt - 1>>}
\* the tiles queried by the loops of the host realizations and by the
\* single-tile path of Devices
LoopTileQueries == IF target = "Devices" THEN {<<0, 0>>} ELSE Lower(C_nt)
InTiles(t) == 0 <= t[1] /\ t[1] < C_mt /\ 0 <= t[2] /\ t[2] < C_nt
QueriesInRange ==
    IF target = "Devices" /\ C_nt # 1
    THEN /\ \A i \in DevRowQueries : 0 <= i /\ i < C_mt
         /\ \A j \in DevColQueries : 0 <= j /\ j < C_nt
         /\ \A t \in DevTileQueries : InTiles(t)
    ELSE \A t \in LoopTileQueries : InTiles(t)

\* C35: every tile-index query of a realization that has run is within
\* the grid of C, the empty grid included; for an empty C the call does no
\* work and returns without error.
C35_IndicesInRange ==
    /\ Accepted /\ phase \in {"returned", "raised", "aborted"} => QueriesInRange
    /\ Accepted /\ C_nt = 0 =>
          /\ phase \in {"running", "returned"}
          /\ err = 0 /\ caught = {} /\ escaped = {}
          /\ \A u \in DOMAIN trace : Events(u, Work) = <<>>

\* C35 for a C with at least one tile
C35_NonEmpty == C_nt >= 1 => C35_IndicesInRange
C35_NonEmpty_Witness ==
    /\ target = "Devices" /\ C_nt = MaxNt /\ phase = "returned"
    /\ LocalLower = Lower(C_nt)


\* what is observed of a device syr2k call: everything but the name of its
\* group; Trans and ConjTrans are the same operator for real matrices
SameOp(o) == IF is_real /\ o = "ConjTrans" THEN "Trans" ELSE o
CallObs(c) ==
    [kind |-> c.kind, dev |-> c.dev, op |-> SameOp(c.opA), n |-> c.n, k |-> c.k,
     X |-> c.X, ldx |-> c.ldx, Y |-> c.Y, ldy |-> c.ldy, beta |-> c.beta,
     c |-> c.c, ldc |-> c.ldc, count |-> c.count]
\* what the general device task of device d does, by kind of statement
GeneralItems(d, op) ==
    Flatten([k \in DOMAIN DevProg(d) |->
                IF DevProg(d)[k].op = op THEN DevProg(d)[k].items ELSE <<>>])
GeneralAcquired(d) == UNION {SeqSet(AcqProg(d, n)[1].items) : n \in 1 .. 6}
GeneralSyncs(d) == Cardinality({k \in DOMAIN DevProg(d) : DevProg(d)[k].op = "sync"})

C37_Witness_Remote ==
    /\ target = "Devices" /\ C_nt = 1 /\ ~tileIsLocal(0, 0) /\ phase = "returned"


\* C38: a call of henorm with batch_count >= 1 and a norm other than Max,
\* One, Inf and Fro launches no kernel and issues no memset, leaves values
\* as it was, and ends in a normal return: the norm is not reported.
C38_OtherNormIgnored ==
    (hn.at \notin {"idle", "kernel"} /\ hn.batch_count >= 1
        /\ hn.norm \notin {"Max", "One", "Inf", "Fro"}) =>
        /\ hn.launches = <<>> /\ hn.memsets = <<>> /\ hn.stream = <<>>
        /\ hn.reads = {} /\ hn.writes = {}
        /\ \A sl \in DOMAIN hn.values : hn.values[sl] = "unset"
        /\ hn.at \in {"entry", "dispatch", "check", "returned", "fatal"}
        /\ ~hn.error => hn.at # "fatal"
        /\ hn.checked /\ ~hn.error => hn.at = "returned"

C38_Witness ==
    /\ hn.at = "returned" /\ hn.norm = "Two" /\ hn.batch_count = HnMaxBatch
    /\ hn.n = HnMaxN /\ hn.checked /\ hn.device


\* the batched syr2k calls of the diagonal tiles executed so far
DiagCalls == {k \in DOMAIN calls : calls[k].kind = "syr2k"}

\* C39: in every accepted call of Devices the operator handed to the batched
\* syr2k of the diagonal tiles by the general path (opA after normalization
\* and swap) is op(A), Trans and ConjTrans being one operator for real
\* types; so is the operator A00.op() of the single-tile path.
C39_DiagOperatorIsOpA ==
    (Accepted /\ target = "Devices") =>
        /\ C_nt # 1 => SameOp(opA_) = SameOp(A_op)
        /\ \A k \in DiagCalls :
              /\ calls[k].opA = (IF C_nt = 1 THEN A_op ELSE opA_)
              /\ SameOp(calls[k].opA) = SameOp(A_op)

C39_Witness ==
    /\ target = "Devices" /\ phase = "returned" /\ C_nt = MaxNt
    /\ is_real /\ C_op = "Trans" /\ A_op = "ConjTrans"
    /\ \E k \in DiagCalls : calls[k].opA = "Trans"

C39_Witness_Swapped ==
    /\ target = "Devices" /\ phase = "returned" /\ C_nt = MaxNt
    /\ ~is_real /\ C_op = "Trans" /\ A_op = "NoTrans"
    /\ \E k \in DiagCalls : calls[k].opA = "NoTrans"


\* the batched gemm calls executed so far, and those of one orientation
GemmCalls == {k \in DOMAIN calls : calls[k].kind = "gemm"}
GemmCallsOf(o) == {k \in GemmCalls : calls[k].orient = o}
OneNoTrans(a, b) ==
    /\ a \in Ops /\ b \in Ops
    /\ (a = "NoTrans") # (b = "NoTrans")

\* C40: in every accepted call of HostBatch and of Devices exactly one of
\* the two gemm operators, after normalization and swap, is NoTrans, and
\* every batched gemm call of either orientation is made with that pair.
C40_OneOperandTransposed ==
    (Accepted /\ target \in {"HostBatch", "Devices"}) =>
        LET a == IF target = "HostBatch" THEN opA_array ELSE opA_
            b == IF target = "HostBatch" THEN opB_array ELSE opB_
        IN  /\ OneNoTrans(a, b)
            /\ \A k \in GemmCalls : calls[k].opA = a /\ calls[k].opB = b
            /\ \A k \in GemmCallsOf(1) : \A l \in GemmCallsOf(2) :
                  calls[k].opA = calls[l].opA /\ calls[k].opB = calls[l].opB

C40_Witness ==
    /\ target = "Devices" /\ phase = "returned" /\ C_nt = MaxNt
    /\ C_op = "Trans" /\ A_op = "Trans"
    /\ GemmCallsOf(1) # {} /\ GemmCallsOf(2) # {}
    /\ \A k \in GemmCalls : calls[k].opA = "Trans" /\ calls[k].opB = "NoTrans"

C40_Witness_HostBatch ==
    /\ target = "HostBatch" /\ phase = "returned" /\ C_nt = MaxNt
    /\ C_op = "Trans" /\ A_op = "NoTrans"
    /\ GemmCallsOf(1) # {} /\ GemmCallsOf(2) # {}
    /\ \A k \in GemmCalls : calls[k].opA = "NoTrans" /\ calls[k].opB = "Trans"

====
